---- MODULE Spec2Model ----
(***************************************************************************)
(* DevPilot orchestration core: agents and their registry, the priority    *)
(* task queue with its dependency tracker, the message / task value types  *)
(* and the workflow engine with its human-review checkpoints.              *)
(*                                                                         *)
(* Several specifications share the module, one per component group:       *)
(*   Spec          workflow engine driving registered agents               *)
(*   SpecReg       agent registry, agent life cycle, best-agent selection  *)
(*   SpecDirectory agent registry with one working agent                   *)
(*   SpecQueue     InMemoryTaskQueue and DependencyTracker                 *)
(*   SpecRetry     InMemoryTaskQueue, the life cycle of its tasks          *)
(*   SpecRT        to_dict / from_dict of AgentMessage and AgentTask       *)
(*   SpecAgent     an agent on the message bus: tasks, requests, replies   *)
(* A specification leaves the variables of the other groups unchanged.     *)
(***************************************************************************)
EXTENDS Integers, Sequences, FiniteSets, TLC

VARIABLES
  \* ---- BaseAgent (one entry per agent object)
  agent_state,        \* BaseAgent._state
  agent_metrics,      \* BaseAgent._metrics
  current_task,       \* BaseAgent._current_task
  task_history,       \* len(BaseAgent._task_history)
  state_change_callbacks, \* BaseAgent._state_change_callbacks
  processing,         \* the execute_task calls of an agent that await process_task
  state_changes,      \* history: the callbacks the state setter invoked during the
                      \* last operation on an agent, and whether one escaped
  \* ---- AgentRegistry
  agents,             \* keys of AgentRegistry._agents
  agent_types,        \* AgentRegistry._agent_types : type -> list of ids
  reg_order,          \* history: registered ids, earliest standing registration first
  best,               \* history: last get_best_agent call [type, result]
  \* ---- WorkflowEngine
  workflow,           \* the registered Workflow (its steps)
  executions,         \* WorkflowEngine._executions
  pending_approvals,  \* keys of WorkflowEngine._pending_approvals
  run,                \* position of the engine coroutine working on each execution
  awaiting,           \* history: review steps executed and not yet approved/rejected
  entry,              \* history: the call each coroutine serves, the index it
                      \* found and the indices of the top-level steps begun since
  last_call,          \* history: the last engine step taken and its outcome
  top_failure,        \* history: the exception the top-level step that ran last ended in
  event_handlers,     \* WorkflowEngine._event_handlers: per event, how each
                      \* registered handler behaves ("ok" or "raises")
  emitted,            \* history: the handler calls the last engine step made,
                      \* and whether an exception of a handler reached the engine
  \* ---- InMemoryTaskQueue
  queue,              \* InMemoryTaskQueue._queue (a heapq list)
  type_queues,        \* InMemoryTaskQueue._type_queues
  tasks,              \* InMemoryTaskQueue._tasks
  pending_tasks,      \* keys of InMemoryTaskQueue._pending_tasks
  running_tasks,      \* keys of InMemoryTaskQueue._running_tasks
  completed_tasks,    \* keys of InMemoryTaskQueue._completed_tasks
  failed_tasks,       \* keys of InMemoryTaskQueue._failed_tasks
  queue_metrics,      \* InMemoryTaskQueue._metrics
  clock,              \* the value datetime.utcnow() returned last
  served,             \* history: tasks returned by the unfiltered dequeue calls
                      \* made since the last other queue operation
  last_q,             \* history: the result of a retry_task or cancel_task call,
                      \* until the next queue operation
  \* ---- DependencyTracker
  tracker_dependencies, \* DependencyTracker._dependencies
  tracker_completed,    \* DependencyTracker._completed
  \* ---- AgentMessage / AgentTask serialisation
  rt_pc,              \* object, dict or copy: how far the round trip went
  rt_obj,             \* the AgentMessage or AgentTask
  rt_data,            \* its to_dict()
  rt_copy,            \* from_dict(rt_data)
  \* ---- agents and the message bus
  message_bus,        \* BaseAgent.message_bus: "none" or the kind of bus
  published,          \* InMemoryMessageBus._message_history
  received,           \* history: the requests handed to receive_message and how
                      \* the task synthesized for each ended
  handling,           \* the request (its index in received) each agent's
                      \* _handle_request is executing, 0 for none
  agent_call,         \* history: the last execute_task call or return
  state_before,       \* history: the state that call's agent was in before it
  \* ---- InMemoryMessageBus
  bus_running,        \* InMemoryMessageBus._running
  bus_queue,          \* InMemoryMessageBus._message_queue: the messages, each
                      \* by its index in published
  sub_order,          \* keys of InMemoryMessageBus._subscriptions, in dict order
  direct_handlers,    \* keys of InMemoryMessageBus._direct_handlers
  loops,              \* the _process_messages tasks start() created
  deliveries,         \* history: the handler invocations, start and end
  routed,             \* history: how often _route_message was called per message
  named,              \* history: the handlers the routing rule named for a
                      \* message when its routing began
  \* ---- AgenticGraphExecutor
  saved_states,       \* the state saved per task id (save_state_to_redis)
  sessions,           \* AgenticGraphExecutor._sessions
  agentic,            \* use_agents, _initialized and whether _agentic_system is set
  review_call         \* history: the last executor call, its arguments and result

agentVars == <<agent_state, agent_metrics, current_task, task_history,
               state_change_callbacks, state_changes, processing>>
regVars   == <<agents, agent_types, reg_order, best>>
wfVars    == <<workflow, executions, pending_approvals, run, awaiting, entry, last_call,
               top_failure, event_handlers, emitted>>
queueVars == <<queue, type_queues, tasks, pending_tasks, running_tasks,
               completed_tasks, failed_tasks, queue_metrics, clock, served, last_q>>
trackerVars == <<tracker_dependencies, tracker_completed>>
rtVars    == <<rt_pc, rt_obj, rt_data, rt_copy>>
execVars  == <<saved_states, sessions, agentic, review_call>>
routeVars == <<bus_running, bus_queue, sub_order, direct_handlers, loops,
               deliveries, routed, named>>
busVars   == <<message_bus, published, received, handling, agent_call, state_before,
               routeVars>>

None == "None"

(***************************************************************************)
(* Bounds of the model.                                                    *)
(***************************************************************************)
MaxSteps   == 2   \* longest workflow built from StepChoices
MaxTasks   == 2   \* tasks an agent may finish (completed + failed)
MaxEnqueue == 3   \* enqueue calls, and the cap of the queue's counters
MaxListed  == 3   \* ids listed under one agent type

(***************************************************************************)
(* Agents.  The agent population is fixed; ids follow the "<type>-<n>"     *)
(* convention the task queue relies on (task_queue.py:124).                *)
(***************************************************************************)
AgentIds   == {"ba-1", "ba-2", "architect-1"}
AgentTypes == {"ba", "architect"}

agent_type(a) == IF a \in {"ba-1", "ba-2"} THEN "ba" ELSE "architect"

AgentState == {"idle", "working", "reviewing", "completed", "blocked", "error", "paused"}

\* a variant of is_available that also admits an agent in the error state
is_available_or_error(a) == agent_state[a] \in {"idle", "completed", "error"}

\* BaseAgent.is_available
is_available(a) == agent_state[a] \in {"idle", "completed"}

\* self._current_task = None
NoTask == [task_type |-> None, input_data |-> [k \in {} |-> ""],
           assigned_agent |-> None, status |-> None]

NewMetrics == [tasks_completed |-> 0, tasks_failed |-> 0, total_processing_time |-> 0]

MaxCallbacks == 2   \* callbacks registered on one agent
\* a callback returns, or raises an Exception
CallbackKinds == {"ok", "raises"}

NoChanges == [calls |-> <<>>, escaped |-> FALSE]

RECURSIVE CallCallbacks(_, _, _, _)
\* the loop of the state setter over _state_change_callbacks from position i:
\* each callback is called with the new state; tried tells whether the call
\* stands inside try/except Exception
CallCallbacks(a, new_state, i, tried) ==
  IF i > Len(state_change_callbacks[a]) THEN NoChanges
  ELSE IF state_change_callbacks[a][i] = "raises" /\ ~tried
    THEN [calls |-> << <<a, new_state, i>> >>, escaped |-> TRUE]
    ELSE LET rest == CallCallbacks(a, new_state, i + 1, tried)
         IN [calls |-> << <<a, new_state, i>> >> \o rest.calls,
             escaped |-> rest.escaped]

\* a variant of the state setter that calls the callbacks outside any try
state_setter_untried(a, new_state) == CallCallbacks(a, new_state, 1, FALSE)

\* BaseAgent.state (setter): the callbacks it invokes; the assignment of
\* _state itself is made by the operation that uses the setter
state_setter(a, new_state) == CallCallbacks(a, new_state, 1, TRUE)

\* BaseAgent.register_state_callback
register_state_callback(a, kind) ==
  /\ Len(state_change_callbacks[a]) < MaxCallbacks
  /\ state_change_callbacks' = [state_change_callbacks EXCEPT ![a] = Append(@, kind)]
  /\ UNCHANGED <<agent_state, agent_metrics, current_task, task_history, state_changes,
               processing>>

\* BaseAgent.__init__
AgentInit ==
  /\ agent_state   = [a \in AgentIds |-> "idle"]
  /\ agent_metrics = [a \in AgentIds |-> NewMetrics]
  /\ current_task  = [a \in AgentIds |-> NoTask]
  /\ task_history  = [a \in AgentIds |-> 0]
  /\ state_change_callbacks = [a \in AgentIds |-> <<>>]
  /\ state_changes = NoChanges
  /\ processing = [a \in AgentIds |-> 0]

\* AgentTask.create followed by mark_started
NewTask(task_type, input_data, a) ==
  [task_type |-> task_type, input_data |-> input_data,
   assigned_agent |-> a, status |-> "running"]

\* the cap that keeps the metrics counters finite
CanCount(a) ==
  agent_metrics[a].tasks_completed + agent_metrics[a].tasks_failed < MaxTasks

\* BaseAgent.execute_task up to the await of process_task (the caller has
\* checked is_available, line 207)
execute_task_start(a, task) ==
  /\ current_task' = [current_task EXCEPT ![a] = task]
  /\ agent_state'  = [agent_state EXCEPT ![a] = "working"]
  /\ state_changes' = state_setter(a, "working")
  /\ processing' = [processing EXCEPT ![a] = @ + 1]
  /\ UNCHANGED <<agent_metrics, task_history, state_change_callbacks>>

Outcomes == {"ok", "raise", "notify_raises"}
\* the engine's own bus is an InMemoryMessageBus (workflow_engine.py:193),
\* whose publish does not raise
WfOutcomes == {"ok", "raise"}

\* a variant of the end of execute_task that leaves the agent idle after a
\* task that succeeded
execute_task_finish_idle(a, outcome, dt) ==
  LET m == agent_metrics[a]
  IN /\ agent_metrics' = [agent_metrics EXCEPT ![a] =
                            IF outcome = "raise"
                              THEN [m EXCEPT !.tasks_failed = @ + 1]
                              ELSE [m EXCEPT !.tasks_completed = @ + 1,
                                             !.total_processing_time = @ + dt]]
     /\ task_history'  = [task_history EXCEPT ![a] =
                            IF outcome = "raise" THEN @ ELSE @ + 1]
     /\ agent_state'   = [agent_state EXCEPT ![a] =
                            IF outcome = "raise" THEN "error" ELSE "idle"]
     /\ state_changes' = state_setter(a, IF outcome = "raise" THEN "error" ELSE "idle")
     /\ current_task'  = [current_task EXCEPT ![a] = NoTask]
     /\ processing'    = [processing EXCEPT ![a] = @ - 1]
     /\ UNCHANGED state_change_callbacks

\* BaseAgent.execute_task from the return of process_task on.
\*   ok             process_task returned and the completion notice was sent
\*   raise          process_task raised
\*   notify_raises  process_task returned, publishing the completion notice
\*                  raised inside the try block (line 241)
\* The setter runs for COMPLETED (line 237, inside the try block) and for
\* ERROR (line 248, inside the except block); an exception leaving the first
\* would be handled by the except block like one of the completion notice.
execute_task_finish(a, outcome, dt) ==
  LET m  == agent_metrics[a]
      c1 == IF outcome \in {"ok", "notify_raises"}
              THEN state_setter(a, "completed") ELSE NoChanges
      out == IF c1.escaped THEN "notify_raises" ELSE outcome
      c2 == IF out # "ok" THEN state_setter(a, "error") ELSE NoChanges
      m1 == IF out \in {"ok", "notify_raises"}
              THEN [m EXCEPT !.tasks_completed = @ + 1,
                             !.total_processing_time = @ + dt]
              ELSE m
      m2 == IF out \in {"raise", "notify_raises"}
              THEN [m1 EXCEPT !.tasks_failed = @ + 1]
              ELSE m1
  IN /\ agent_metrics' = [agent_metrics EXCEPT ![a] = m2]
     /\ task_history'  = [task_history EXCEPT ![a] =
                            IF out = "raise" THEN @ ELSE @ + 1]
     /\ agent_state'   = [agent_state EXCEPT ![a] =
                            IF out = "ok" THEN "completed" ELSE "error"]
     /\ state_changes' = [calls |-> c1.calls \o c2.calls,
                          escaped |-> c1.escaped \/ c2.escaped]
     /\ current_task'  = [current_task EXCEPT ![a] = NoTask]
     /\ processing'    = [processing EXCEPT ![a] = @ - 1]
     /\ UNCHANGED state_change_callbacks

\* BaseAgent.reset
reset(a) ==
  /\ agent_state'  = [agent_state EXCEPT ![a] = "idle"]
  /\ current_task' = [current_task EXCEPT ![a] = NoTask]
  /\ state_changes' = NoChanges
  /\ UNCHANGED <<agent_metrics, task_history, state_change_callbacks, processing>>

(***************************************************************************)
(* Agent registry.                                                         *)
(***************************************************************************)
TypeIds(t) == IF t \in DOMAIN agent_types THEN agent_types[t] ELSE <<>>

RECURSIVE RemoveFirst(_, _)
\* list.remove(x): drops the first occurrence
RemoveFirst(s, x) ==
  IF s = <<>> THEN <<>>
  ELSE IF Head(s) = x THEN Tail(s)
  ELSE <<Head(s)>> \o RemoveFirst(Tail(s), x)

\* AgentRegistry.register_agent
register_agent(a) ==
  /\ agents' = agents \cup {a}
  /\ agent_types' = (agent_type(a) :> Append(TypeIds(agent_type(a)), a)) @@ agent_types
  /\ reg_order' = IF a \in agents THEN reg_order ELSE Append(reg_order, a)

\* AgentRegistry.unregister_agent
unregister_agent(a) ==
  IF a \notin agents
    THEN UNCHANGED <<agents, agent_types, reg_order>>
    ELSE LET t    == agent_type(a)
             rest == RemoveFirst(TypeIds(t), a)
         IN /\ agents' = agents \ {a}
            /\ agent_types' =
                 IF t \in DOMAIN agent_types
                   THEN IF rest = <<>>
                          THEN [u \in DOMAIN agent_types \ {t} |-> agent_types[u]]
                          ELSE [agent_types EXCEPT ![t] = rest]
                   ELSE agent_types
            /\ reg_order' = SelectSeq(reg_order, LAMBDA x : x # a)

\* a variant of get_agents_by_type without the `if aid in self._agents` filter
get_agents_by_type_unfiltered(t) == TypeIds(t)

\* AgentRegistry.get_agents_by_type
get_agents_by_type(t) == SelectSeq(TypeIds(t), LAMBDA aid : aid \in agents)

\* score_agent inside get_best_agent, as the exact fraction num / den
score_agent(a) ==
  LET m     == agent_metrics[a]
      total == m.tasks_completed + m.tasks_failed
      n1    == IF total > 0 THEN 100 * m.tasks_failed ELSE 0
      d1    == IF total > 0 THEN total ELSE 1
      n2    == IF m.tasks_completed > 0 THEN m.total_processing_time ELSE 0
      d2    == IF m.tasks_completed > 0 THEN 10 * m.tasks_completed ELSE 1
  IN [num |-> n1 * d2 + n2 * d1, den |-> d1 * d2]

ScoreLess(x, y) == x.num * y.den < y.num * x.den

RECURSIVE MinByScore(_, _)
\* min(available_agents, key=score_agent): the first minimal element
MinByScore(s, cur) ==
  IF s = <<>> THEN cur
  ELSE IF ScoreLess(score_agent(Head(s)), score_agent(cur))
         THEN MinByScore(Tail(s), Head(s))
         ELSE MinByScore(Tail(s), cur)

\* AgentRegistry.get_best_agent
get_best_agent(t) ==
  LET available_agents == SelectSeq(get_agents_by_type(t), is_available)
  IN IF available_agents = <<>> THEN None
     ELSE IF Len(available_agents) = 1 THEN available_agents[1]
     ELSE MinByScore(Tail(available_agents), Head(available_agents))

(***************************************************************************)
(* Workflow definitions.                                                   *)
(***************************************************************************)
StepType == {"agent_task", "parallel", "conditional", "human_review", "loop", "wait"}

\* context keys: a plain key, and the two keys reject_step derives from a
\* step name (f"{name}_feedback", f"{name}_review_status")
K(s)                  == <<s, "">>
FeedbackKey(name)     == <<name, "_feedback">>
ReviewStatusKey(name) == <<name, "_review_status">>

EmptyMap == [k \in {} |-> ""]

\* dataclass WorkflowStep
WorkflowStep(id, name, type, atype, imap, omap, cond, subs, onfail) ==
  [step_id |-> id, name |-> name, step_type |-> type, agent_type |-> atype,
   task_type |-> name, input_mapping |-> imap, output_mapping |-> omap,
   condition |-> cond, sub_steps |-> subs, on_failure |-> onfail]

\* WorkflowStep.create_agent_step
create_agent_step(id, name, atype, imap, omap, onfail) ==
  WorkflowStep(id, name, "agent_task", atype, imap, omap, "none", <<>>, onfail)

\* WorkflowStep.create_human_review_step
create_human_review_step(id, name) ==
  WorkflowStep(id, name, "human_review", None, {}, {}, "none", <<>>, "fail")

\* WorkflowStep.create_parallel_step
create_parallel_step(id, name, subs) ==
  WorkflowStep(id, name, "parallel", None, {}, {}, "none", subs, "fail")

\* a WorkflowStep of type CONDITIONAL (built directly, there is no factory)
conditional_step(id, name, cond, subs, onfail) ==
  WorkflowStep(id, name, "conditional", None, {}, {}, cond, subs, onfail)

StepNames == <<"s1", "s2", "s3", "s4", "s5", "s6">>
SubNames  == <<"a", "b", "c">>

\* step ids stand for the uuid4 strings: distinct for distinct steps
TopId(i)    == 10 * i
SubId(i, j) == 10 * i + j
TopName(i)    == StepNames[i]
SubName(i, j) == StepNames[i] \o SubNames[j]

\* The steps a workflow may hold at (1-based) position i.
StepChoices(i) ==
  { create_agent_step(TopId(i), TopName(i), "ba",
                      {<<"requirements", K("requirements")>>, <<"note", K("note")>>},
                      {<<"result", K(TopName(i))>>}, "fail"),
    create_agent_step(TopId(i), TopName(i), "architect", {}, {}, "skip"),
    create_agent_step(TopId(i), TopName(i), "ba", {}, {}, "retry"),
    create_human_review_step(TopId(i), TopName(i)),
    conditional_step(TopId(i), TopName(i), "always",
      << create_human_review_step(SubId(i, 1), SubName(i, 1)),
         create_agent_step(SubId(i, 2), SubName(i, 2), "architect", {}, {}, "fail") >>,
      "skip"),
    conditional_step(TopId(i), TopName(i), "never",
      << create_agent_step(SubId(i, 1), SubName(i, 1), "ba", {}, {}, "fail") >>,
      "fail"),
    create_parallel_step(TopId(i), TopName(i),
      << create_agent_step(SubId(i, 1), SubName(i, 1), "ba", {}, {}, "fail"),
         create_human_review_step(SubId(i, 2), SubName(i, 2)),
         create_agent_step(SubId(i, 3), SubName(i, 3), "ba", {}, {}, "skip") >>) }

RECURSIVE StepLists(_)
\* all step lists of length n
StepLists(n) ==
  IF n = 0 THEN {<<>>}
  ELSE {Append(l, s) : l \in StepLists(n - 1), s \in StepChoices(n)}

\* the three-step workflow of the end-to-end scenario: agent_task("ba"),
\* human_review, agent_task("architect")
EndToEnd ==
  << create_agent_step(TopId(1), TopName(1), "ba",
                       {<<"requirements", K("requirements")>>},
                       {<<"result", K(TopName(1))>>}, "fail"),
     create_human_review_step(TopId(2), TopName(2)),
     create_agent_step(TopId(3), TopName(3), "architect", {}, {}, "fail") >>

Workflows == UNION {StepLists(n) : n \in 0..MaxSteps} \cup {EndToEnd}

(***************************************************************************)
(* Step results.  A result dictionary is a record                          *)
(*   tag  what the dictionary is   val  its payload   sub  nested results  *)
(***************************************************************************)
R(tag, val, sub) == [tag |-> tag, val |-> val, sub |-> sub]

AgentResult(a)       == R("result", a, <<>>)              \* process_task's dict
WaitingResult        == R("waiting_approval", "", <<>>)   \* {"status": "waiting_approval"}
SkippedResult(err)   == R("skipped", err, <<>>)           \* {"skipped": True, "error": e}
NotMetResult         == R("skipped", "condition_not_met", <<>>)
ErrorResult(err)     == R("error", err, <<>>)             \* {"error": str(e)}
NoneResult           == R("None", "", <<>>)               \* None
SubResults(rs)       == R("results", "", rs)              \* {sub_step_id: result}
Approval(ok, fb)     == R(IF ok THEN "approved" ELSE "rejected", fb, <<>>)

\* `output_key in result` and result[output_key]
HasKey(r, k) ==
  \/ r.tag = "result" /\ k = "result"
  \/ r.tag = "waiting_approval" /\ k = "status"
  \/ r.tag = "skipped" /\ k \in {"skipped", "reason"}
GetKey(r, k) == IF r.tag = "waiting_approval" THEN "waiting_approval" ELSE r.val

StepKey(id)    == <<"step", id>>
ApprovalKey(i) == <<"approval", i>>

\* dataclass WorkflowExecution
WorkflowExecution(ctx) ==
  [status |-> "pending", context |-> ctx, current_step_index |-> 0,
   step_results |-> [k \in {} |-> NoneResult], error |-> None,
   pending_review |-> 0]

Put(f, k, v) == (k :> v) @@ f

(***************************************************************************)
(* Workflow engine.                                                        *)
(*                                                                         *)
(* The engine is a set of coroutines.  run[e].pc is the place where the    *)
(* coroutine working on execution e is suspended:                          *)
(*   idle   no call is in progress on e                                    *)
(*   loop   in _run_workflow, before the next step (the awaits of          *)
(*          _emit_event at lines 267 and 314)                              *)
(*   agent  a top-level agent step awaits process_task (line 386)          *)
(*   sub    inside a conditional or parallel step; subst[j] is todo,       *)
(*          working (awaiting process_task) or done for sub-step j         *)
(***************************************************************************)
ExecIds == {"e1"}   \* the ids execute_workflow hands out (uuid4 strings)

InitialContexts == {K("requirements") :> "X"}
\* the (feedback, context_updates) arguments of approve_step and reject_step
ApproveArgs == {<<None, EmptyMap>>, <<"ok", K("note") :> "n">>}
RejectArgs  == {<<"fb", K("note") :> "n">>}

IdleRun == [pc |-> "idle", agent |-> None, subst |-> <<>>, subag |-> <<>>,
            subres |-> <<>>]

Entry(op, i) == [op |-> op, from |-> i, ran |-> <<>>]

Call(op, e, id, err) == [op |-> op, eid |-> e, step |-> id, err |-> err]

\* execution.context.update(d)
Update(ctx, d) == d @@ ctx

\* _execute_step, lines 329-332: apply output_mapping
ApplyOutput(ctx, step, result) ==
  LET hits == {m \in step.output_mapping : HasKey(result, m[1])}
      keys == {m[2] : m \in hits}
  IN [k \in DOMAIN ctx \cup keys |->
        IF k \in keys THEN GetKey(result, (CHOOSE m \in hits : m[2] = k)[1])
        ELSE ctx[k]]

\* _execute_agent_step, lines 368-376: task input from the context
TaskInput(ctx, step) ==
  IF step.input_mapping = {} THEN ctx
  ELSE LET hits == {m \in step.input_mapping : m[2] \in DOMAIN ctx}
       IN [k \in {K(m[1]) : m \in hits} |->
             ctx[(CHOOSE m \in hits : K(m[1]) = k)[2]]]

Body(raised, result, err) == [raised |-> raised, result |-> result, err |-> err]
Returned(result) == Body(FALSE, result, "")
Raised(err)      == Body(TRUE, NoneResult, err)

(***************************************************************************)
(* Events.  The engine calls its handlers in _emit_event only.             *)
(***************************************************************************)
MaxHandlers == 2   \* handlers registered per event

\* the events the engine emits
EventNames == {"workflow_started", "step_started", "step_completed", "step_failed",
               "approval_required", "workflow_completed", "workflow_failed"}
\* what a handler does when called
HandlerKinds == {"ok", "raises"}

\* WorkflowEngine.__init__: no handlers
EventInit ==
  /\ event_handlers = [n \in EventNames |-> <<>>]
  /\ emitted = [calls |-> <<>>, escaped |-> FALSE]

RECURSIVE CallHandlers(_, _, _)
\* the loop of _emit_event from handler i on (lines 545-552): the calls it
\* makes, each <<event, position of the handler>>, and whether it ends with
\* an exception; `tried` says whether the call is inside the try block
CallHandlers(name, i, tried) ==
  IF i > Len(event_handlers[name]) THEN [calls |-> <<>>, raised |-> FALSE]
  ELSE IF event_handlers[name][i] = "raises" /\ ~tried
    THEN [calls |-> << <<name, i>> >>, raised |-> TRUE]
  ELSE LET rest == CallHandlers(name, i + 1, tried)
       IN [calls |-> << <<name, i>> >> \o rest.calls, raised |-> rest.raised]

\* a variant of _emit_event without the try block
emit_event_untried(name) == CallHandlers(name, 1, FALSE)

\* WorkflowEngine._emit_event
emit_event(name) == CallHandlers(name, 1, TRUE)

\* `await self._emit_event(name, ...)` ends with an exception
Escapes(name) == emit_event(name).raised

RECURSIVE EmitSeq(_)
\* the events of a sequence emitted one after the other, up to the first
\* whose exception reaches the engine
EmitSeq(names) ==
  IF names = <<>> THEN [calls |-> <<>>, escaped |-> FALSE]
  ELSE LET r == emit_event(Head(names))
           rest == EmitSeq(Tail(names))
       IN IF r.raised
            THEN [calls |-> r.calls, escaped |-> TRUE]
            ELSE [calls |-> r.calls \o rest.calls, escaped |-> rest.escaped]

\* the engine step emits these events
Emits(names) ==
  /\ emitted' = EmitSeq(names)
  /\ UNCHANGED event_handlers

\* WorkflowEngine.on_event for every event, by a sink that listens to all
on_event(kind) ==
  /\ \A n \in EventNames : Len(event_handlers[n]) < MaxHandlers
  /\ event_handlers' = [n \in EventNames |-> Append(event_handlers[n], kind)]
  /\ UNCHANGED <<workflow, executions, pending_approvals, run, awaiting, entry,
                 last_call, top_failure, emitted>>
  /\ UNCHANGED <<agentVars, regVars, queueVars, trackerVars, rtVars, execVars, busVars>>

\* _execute_step after the step's own code: output mapping and the
\* step_completed event on return; on an exception of either the
\* step_failed event and the on_failure policy (lines 328-358)
ExecuteStepWrap(ex, step, body) ==
  LET ex1  == [ex EXCEPT !.context = ApplyOutput(@, step, body.result)]
      ok   == ~body.raised /\ ~Escapes("step_completed")
      exf  == IF body.raised THEN ex ELSE ex1
      err  == IF body.raised THEN body.err ELSE "handler_error"
      evs  == (IF body.raised THEN <<>> ELSE <<"step_completed">>)
                \o (IF ok THEN <<>> ELSE <<"step_failed">>)
  IN IF ok
       THEN [ex |-> ex1, raised |-> FALSE, result |-> body.result, err |-> "",
             events |-> evs]
     ELSE IF Escapes("step_failed")
       THEN [ex |-> exf, raised |-> TRUE, result |-> NoneResult,
             err |-> "handler_error", events |-> evs]
     ELSE IF step.on_failure = "skip"
       THEN [ex |-> exf, raised |-> FALSE, result |-> SkippedResult(err), err |-> "",
             events |-> evs]
     ELSE IF step.on_failure = "retry"
       THEN [ex |-> exf, raised |-> FALSE, result |-> NoneResult, err |-> "",
             events |-> evs]
     ELSE [ex |-> [exf EXCEPT !.status = "failed", !.error = err],
           raised |-> TRUE, result |-> NoneResult, err |-> err, events |-> evs]

\* a variant of _run_workflow that suspends at a review without entering the
\* execution in _pending_approvals
RunWorkflowAfter_unregistered(ex, step, w) ==
  IF w.raised
    THEN [ex |-> [ex EXCEPT !.status = "failed", !.error = w.err],
          pc |-> "idle", pend |-> FALSE, events |-> <<"workflow_failed">>]
  ELSE LET ex1 == [ex EXCEPT !.step_results = Put(@, StepKey(step.step_id), w.result)]
       IN IF ex1.status \in {"waiting_approval", "failed"}
            THEN [ex |-> ex1, pc |-> "idle", pend |-> FALSE, events |-> <<>>]
          ELSE [ex |-> [ex1 EXCEPT !.current_step_index = @ + 1],
                pc |-> "loop", pend |-> FALSE, events |-> <<>>]

\* _run_workflow after `await self._execute_step` (lines 276-310)
RunWorkflowAfter(ex, step, w) ==
  IF w.raised
    THEN [ex |-> [ex EXCEPT !.status = "failed", !.error = w.err],
          pc |-> "idle", pend |-> FALSE, events |-> <<"workflow_failed">>]
  ELSE LET ex1 == [ex EXCEPT !.step_results = Put(@, StepKey(step.step_id), w.result)]
       IN IF ex1.status = "waiting_approval"
            THEN IF Escapes("approval_required")
                   THEN [ex |-> [ex1 EXCEPT !.status = "failed",
                                            !.error = "handler_error"],
                         pc |-> "idle", pend |-> TRUE,
                         events |-> <<"approval_required", "workflow_failed">>]
                   ELSE [ex |-> ex1, pc |-> "idle", pend |-> TRUE,
                         events |-> <<"approval_required">>]
          ELSE IF ex1.status = "failed"
            THEN [ex |-> ex1, pc |-> "idle", pend |-> FALSE, events |-> <<>>]
          ELSE [ex |-> [ex1 EXCEPT !.current_step_index = @ + 1],
                pc |-> "loop", pend |-> FALSE, events |-> <<>>]

NoFailure == [eid |-> None, index |-> 0, policy |-> None, err |-> ""]

\* a top-level step has run: _execute_step's wrapper, then _run_workflow;
\* `before` are the events the step emitted before that
FinishTopStep(e, ex, step, body, before) ==
  LET w == ExecuteStepWrap(ex, step, body)
      r == RunWorkflowAfter(w.ex, step, w)
  IN /\ executions' = [executions EXCEPT ![e] = r.ex]
     /\ Emits(before \o w.events \o r.events)
     /\ top_failure' = IF body.raised
                         THEN [eid |-> e, index |-> ex.current_step_index,
                               policy |-> step.on_failure, err |-> body.err]
                         ELSE NoFailure
     /\ run' = [run EXCEPT ![e] = [IdleRun EXCEPT !.pc = r.pc]]
     /\ pending_approvals' = IF r.pend THEN pending_approvals \cup {e}
                             ELSE pending_approvals

\* a variant of the review step that records the review without suspending
HumanReview_no_pause(ex, step) ==
  [ex EXCEPT !.pending_review = step.step_id]

\* _execute_human_review_step
HumanReview(ex, step) ==
  [ex EXCEPT !.status = "waiting_approval", !.pending_review = step.step_id]

CurrentStep(e) == workflow[executions[e].current_step_index + 1]

AllDone(st) == \A k \in 1..Len(st) : st[k] = "done"

\* _run_workflow begins (lines 266-267): where the coroutine goes on; an
\* exception of the workflow_started event, outside the try block, ends the
\* call
RunWorkflowBegins == IF Escapes("workflow_started") THEN "idle" ELSE "loop"

\* WorkflowEngine.execute_workflow up to the first await of _run_workflow
execute_workflow(e, ctx) ==
  /\ e \in ExecIds \ DOMAIN executions
  /\ executions' = Put(executions, e, [WorkflowExecution(ctx) EXCEPT !.status = "running"])
  /\ run' = [run EXCEPT ![e].pc = RunWorkflowBegins]
  /\ Emits(<<"workflow_started">>)
  /\ last_call' = Call("execute_workflow", e, 0, "")
  /\ entry' = [entry EXCEPT ![e] = Entry("execute_workflow", 0)]
  /\ top_failure' = NoFailure
  /\ UNCHANGED <<workflow, pending_approvals, awaiting>>
  /\ UNCHANGED <<agentVars, regVars, queueVars, trackerVars, rtVars, execVars, busVars>>

\* _run_workflow, lines 270 and 298-303: the loop ends
CompleteWorkflow(e) ==
  /\ e \in DOMAIN executions
  /\ run[e].pc = "loop"
  /\ executions[e].current_step_index >= Len(workflow)
  /\ executions' = [executions EXCEPT ![e] =
                      IF @.status # "running" THEN @
                      ELSE IF Escapes("workflow_completed")
                        THEN [@ EXCEPT !.status = "failed", !.error = "handler_error"]
                      ELSE [@ EXCEPT !.status = "completed"]]
  /\ Emits(IF executions[e].status # "running" THEN <<>>
           ELSE IF Escapes("workflow_completed")
             THEN <<"workflow_completed", "workflow_failed">>
           ELSE <<"workflow_completed">>)
  /\ run' = [run EXCEPT ![e].pc = "idle"]
  /\ last_call' = Call("complete", e, 0, "")
  /\ top_failure' = NoFailure
  /\ UNCHANGED <<workflow, pending_approvals, awaiting, entry>>
  /\ UNCHANGED <<agentVars, regVars, queueVars, trackerVars, rtVars, execVars, busVars>>

AtStep(e, types) ==
  /\ e \in DOMAIN executions
  /\ run[e].pc = "loop"
  /\ executions[e].current_step_index < Len(workflow)
  /\ CurrentStep(e).step_type \in types

\* the step_started event of a top-level step ends with an exception: line
\* 314 is outside the try block of _execute_step, so it reaches the except
\* clause of _run_workflow (305-310)
StartFails(e) ==
  /\ executions' = [executions EXCEPT ![e] =
                      [@ EXCEPT !.status = "failed", !.error = "handler_error"]]
  /\ run' = [run EXCEPT ![e] = IdleRun]
  /\ Emits(<<"step_started", "workflow_failed">>)
  /\ last_call' = Call("step", e, CurrentStep(e).step_id, "handler_error")
  /\ top_failure' = NoFailure
  /\ UNCHANGED <<pending_approvals, awaiting, agentVars>>

\* a top-level human_review step (no await inside it)
RunReviewStep(e) ==
  /\ AtStep(e, {"human_review"})
  /\ LET step == CurrentStep(e)
     IN IF Escapes("step_started") THEN StartFails(e)
        ELSE /\ FinishTopStep(e, HumanReview(executions[e], step), step,
                              Returned(WaitingResult), <<"step_started">>)
             /\ awaiting' = awaiting \cup {step.step_id}
             /\ last_call' = Call("step", e, step.step_id, "")
  /\ entry' = [entry EXCEPT ![e].ran = Append(@, executions[e].current_step_index)]
  /\ UNCHANGED <<workflow, agentVars, regVars, queueVars, trackerVars, rtVars, execVars, busVars>>

\* a top-level agent_task step up to the await of process_task, or to its
\* end when no agent is available (_execute_agent_step, lines 363-386)
StartAgentStep(e) ==
  /\ AtStep(e, {"agent_task"})
  /\ LET step == CurrentStep(e)
         a    == get_best_agent(step.agent_type)
     IN IF Escapes("step_started") THEN StartFails(e)
        ELSE /\ last_call' = Call("step", e, step.step_id,
                                  IF a = None THEN "no_agent" ELSE "")
             /\ IF a = None
                  THEN /\ FinishTopStep(e, executions[e], step, Raised("no_agent"),
                                        <<"step_started">>)
                       /\ UNCHANGED agentVars
                  ELSE /\ CanCount(a)
                       /\ execute_task_start(a,
                            NewTask(step.task_type, TaskInput(executions[e].context, step), a))
                       /\ run' = [run EXCEPT ![e].pc = "agent", ![e].agent = a]
                       /\ Emits(<<"step_started">>)
                       /\ top_failure' = NoFailure
                       /\ UNCHANGED <<executions, pending_approvals>>
  /\ entry' = [entry EXCEPT ![e].ran = Append(@, executions[e].current_step_index)]
  /\ UNCHANGED <<workflow, awaiting, regVars, queueVars, trackerVars, rtVars, execVars, busVars>>

\* process_task of a top-level agent step returns or raises
FinishAgentStep(e, outcome, dt) ==
  /\ e \in DOMAIN executions
  /\ run[e].pc = "agent"
  /\ LET step == CurrentStep(e)
         a    == run[e].agent
     IN /\ execute_task_finish(a, outcome, dt)
        /\ FinishTopStep(e, executions[e], step,
             IF outcome = "ok" THEN Returned(AgentResult(a)) ELSE Raised("task_failed"),
             <<>>)
        /\ last_call' = Call("finish", e, step.step_id, IF outcome = "ok" THEN "" ELSE "task_failed")
  /\ UNCHANGED <<workflow, awaiting, entry, regVars, queueVars, trackerVars, rtVars, execVars, busVars>>

\* a conditional or parallel step is entered (lines 402-429); a step of any
\* other type raises ValueError (line 326)
EnterStep(e) ==
  /\ AtStep(e, StepType \ {"human_review", "agent_task"})
  /\ LET step == CurrentStep(e)
         n    == Len(step.sub_steps)
         skip == step.step_type = "conditional" /\ step.condition # "always"
     IN IF Escapes("step_started") THEN StartFails(e)
        ELSE /\ last_call' = Call("enter", e, step.step_id, "")
             /\ IF step.step_type \notin {"conditional", "parallel"}
                  THEN FinishTopStep(e, executions[e], step, Raised("unknown_step_type"),
                                     <<"step_started">>)
                ELSE IF skip
                  THEN FinishTopStep(e, executions[e], step, Returned(NotMetResult),
                                     <<"step_started">>)
                ELSE IF n = 0
                  THEN FinishTopStep(e, executions[e], step, Returned(SubResults(<<>>)),
                                     <<"step_started">>)
                ELSE /\ run' = [run EXCEPT ![e].pc = "sub",
                                            ![e].subst  = [k \in 1..n |-> "todo"],
                                            ![e].subag  = [k \in 1..n |-> None],
                                            ![e].subres = [k \in 1..n |-> NoneResult]]
                     /\ Emits(<<"step_started">>)
                     /\ top_failure' = NoFailure
                     /\ UNCHANGED <<executions, pending_approvals>>
  /\ entry' = [entry EXCEPT ![e].ran = Append(@, executions[e].current_step_index)]
  /\ UNCHANGED <<workflow, awaiting, agentVars, regVars, queueVars, trackerVars, rtVars, execVars, busVars>>

\* the _execute_step call of sub-step j of the current step has ended as w
\* says: the enclosing _execute_parallel_step (an exception becomes
\* {"error": ...}) or _execute_conditional_step (an exception leaves the
\* step); `before` are the events the sub-step emitted before its wrapper
SubJoin(e, j, w, before) ==
  LET step == CurrentStep(e)
      rj   == IF w.raised THEN ErrorResult(w.err) ELSE w.result
      st   == [run[e].subst EXCEPT ![j] = "done"]
      res  == [run[e].subres EXCEPT ![j] = rj]
  IN IF w.raised /\ step.step_type = "conditional"
       THEN FinishTopStep(e, w.ex, step, Raised(w.err), before \o w.events)
     ELSE IF AllDone(st)
       THEN FinishTopStep(e, w.ex, step, Returned(SubResults(res)), before \o w.events)
     ELSE /\ executions' = [executions EXCEPT ![e] = w.ex]
          /\ run' = [run EXCEPT ![e].subst = st, ![e].subres = res]
          /\ Emits(before \o w.events)
          /\ top_failure' = NoFailure
          /\ UNCHANGED pending_approvals

\* sub-step j of the current step has run to its end with `body`, on the
\* execution record ex: its _execute_step wrapper, then the enclosing step
SubDone(e, ex, j, body, before) ==
  SubJoin(e, j, ExecuteStepWrap(ex, CurrentStep(e).sub_steps[j], body), before)

\* the step_started event of sub-step j ends with an exception: it leaves
\* the sub-step's _execute_step (line 314 is outside its try block)
SubStartFails(e, j) ==
  /\ SubJoin(e, j, [ex |-> executions[e], raised |-> TRUE, result |-> NoneResult,
                    err |-> "handler_error", events |-> <<>>], <<"step_started">>)
  /\ last_call' = Call("step", e, CurrentStep(e).sub_steps[j].step_id, "handler_error")
  /\ UNCHANGED <<awaiting, agentVars>>

\* which sub-step may run next: any one not yet started of a parallel step
\* (asyncio.create_task, line 406), the first one left of a conditional step
CanStartSub(e, j) ==
  /\ e \in DOMAIN executions
  /\ run[e].pc = "sub"
  /\ j \in 1..Len(run[e].subst)
  /\ run[e].subst[j] = "todo"
  /\ CurrentStep(e).step_type = "conditional" =>
       \A k \in 1..(j - 1) : run[e].subst[k] = "done"

\* a human_review sub-step
RunReviewSubStep(e, j) ==
  /\ CanStartSub(e, j)
  /\ LET sub == CurrentStep(e).sub_steps[j]
     IN /\ sub.step_type = "human_review"
        /\ IF Escapes("step_started") THEN SubStartFails(e, j)
           ELSE /\ SubDone(e, HumanReview(executions[e], sub), j,
                           Returned(WaitingResult), <<"step_started">>)
                /\ awaiting' = awaiting \cup {sub.step_id}
                /\ last_call' = Call("step", e, sub.step_id, "")
  /\ UNCHANGED <<workflow, entry, agentVars, regVars, queueVars, trackerVars, rtVars, execVars, busVars>>

\* an agent_task sub-step up to the await of process_task
StartAgentSubStep(e, j) ==
  /\ CanStartSub(e, j)
  /\ LET sub == CurrentStep(e).sub_steps[j]
         a   == get_best_agent(sub.agent_type)
     IN /\ sub.step_type = "agent_task"
        /\ IF Escapes("step_started") THEN SubStartFails(e, j)
           ELSE /\ last_call' = Call("step", e, sub.step_id,
                                     IF a = None THEN "no_agent" ELSE "")
                /\ IF a = None
                     THEN /\ SubDone(e, executions[e], j, Raised("no_agent"),
                                     <<"step_started">>)
                          /\ UNCHANGED agentVars
                     ELSE /\ CanCount(a)
                          /\ execute_task_start(a,
                               NewTask(sub.task_type,
                                       TaskInput(executions[e].context, sub), a))
                          /\ run' = [run EXCEPT ![e].subst[j] = "working",
                                                 ![e].subag[j] = a]
                          /\ Emits(<<"step_started">>)
                          /\ top_failure' = NoFailure
                          /\ UNCHANGED <<executions, pending_approvals>>
  /\ UNCHANGED <<workflow, awaiting, entry, regVars, queueVars, trackerVars, rtVars, execVars, busVars>>

\* process_task of an agent_task sub-step returns or raises
FinishAgentSubStep(e, j, outcome, dt) ==
  /\ e \in DOMAIN executions
  /\ run[e].pc = "sub"
  /\ j \in 1..Len(run[e].subst)
  /\ run[e].subst[j] = "working"
  /\ LET a == run[e].subag[j]
     IN /\ execute_task_finish(a, outcome, dt)
        /\ SubDone(e, executions[e], j,
             IF outcome = "ok" THEN Returned(AgentResult(a)) ELSE Raised("task_failed"),
             <<>>)
        /\ last_call' = Call("finish", e, CurrentStep(e).sub_steps[j].step_id,
                             IF outcome = "ok" THEN "" ELSE "task_failed")
  /\ UNCHANGED <<workflow, awaiting, entry, regVars, queueVars, trackerVars, rtVars, execVars, busVars>>

\* a variant of approve_step without the lookup in _pending_approvals
approve_step_no_check(e, feedback, context_updates) ==
  /\ e \in DOMAIN executions
  /\ executions' = [executions EXCEPT ![e] =
       [@ EXCEPT !.context = Update(@, context_updates),
                 !.step_results = Put(@, ApprovalKey(executions[e].current_step_index),
                                      Approval(TRUE, feedback)),
                 !.current_step_index = @ + 1,
                 !.status = "running"]]
  /\ pending_approvals' = pending_approvals \ {e}
  /\ run' = [run EXCEPT ![e].pc = RunWorkflowBegins]
  /\ Emits(<<"workflow_started">>)
  /\ awaiting' = {}
  /\ last_call' = Call("approve_step", e, 0, "")
  /\ entry' = [entry EXCEPT ![e] = Entry("approve_step", executions[e].current_step_index)]
  /\ top_failure' = NoFailure
  /\ UNCHANGED <<workflow, agentVars, regVars, queueVars, trackerVars, rtVars, execVars, busVars>>

\* a variant of approve_step that leaves current_step_index where it was
approve_step_no_advance(e, feedback, context_updates) ==
  IF e \notin pending_approvals
    THEN /\ last_call' = Call("approve_step", e, 0, "NoPendingApproval")
         /\ UNCHANGED <<workflow, executions, pending_approvals, run, awaiting, entry,
                      top_failure, event_handlers, emitted>>
         /\ UNCHANGED <<agentVars, regVars, queueVars, trackerVars, rtVars, execVars, busVars>>
    ELSE /\ executions' = [executions EXCEPT ![e] =
              [@ EXCEPT !.context = Update(@, context_updates),
                        !.step_results = Put(@, ApprovalKey(executions[e].current_step_index),
                                             Approval(TRUE, feedback)),
                        !.status = "running"]]
         /\ pending_approvals' = pending_approvals \ {e}
         /\ run' = [run EXCEPT ![e].pc = RunWorkflowBegins]
         /\ Emits(<<"workflow_started">>)
         /\ awaiting' = {}
         /\ last_call' = Call("approve_step", e, 0, "")
         /\ entry' = [entry EXCEPT ![e] = Entry("approve_step", executions[e].current_step_index)]
         /\ top_failure' = NoFailure
         /\ UNCHANGED <<workflow, agentVars, regVars, queueVars, trackerVars, rtVars, execVars, busVars>>

\* WorkflowEngine.approve_step up to the first await of _run_workflow
approve_step(e, feedback, context_updates) ==
  IF e \notin pending_approvals
    THEN /\ last_call' = Call("approve_step", e, 0, "NoPendingApproval")
         /\ UNCHANGED <<workflow, executions, pending_approvals, run, awaiting, entry,
                      top_failure, event_handlers, emitted>>
         /\ UNCHANGED <<agentVars, regVars, queueVars, trackerVars, rtVars, execVars, busVars>>
    ELSE /\ executions' = [executions EXCEPT ![e] =
              [@ EXCEPT !.context = Update(@, context_updates),
                        !.step_results = Put(@, ApprovalKey(executions[e].current_step_index),
                                             Approval(TRUE, feedback)),
                        !.current_step_index = @ + 1,
                        !.status = "running"]]
         /\ pending_approvals' = pending_approvals \ {e}
         /\ run' = [run EXCEPT ![e].pc = RunWorkflowBegins]
         /\ Emits(<<"workflow_started">>)
         /\ awaiting' = {}
         /\ last_call' = Call("approve_step", e, 0, "")
         /\ entry' = [entry EXCEPT ![e] = Entry("approve_step", executions[e].current_step_index)]
         /\ top_failure' = NoFailure
         /\ UNCHANGED <<workflow, agentVars, regVars, queueVars, trackerVars, rtVars, execVars, busVars>>

\* a variant of reject_step that leaves current_step_index where it was
reject_step_no_rewind(e, feedback, context_updates) ==
  IF e \notin pending_approvals
    THEN /\ last_call' = Call("reject_step", e, 0, "NoPendingApproval")
         /\ UNCHANGED <<workflow, executions, pending_approvals, run, awaiting, entry,
                      top_failure, event_handlers, emitted>>
         /\ UNCHANGED <<agentVars, regVars, queueVars, trackerVars, rtVars, execVars, busVars>>
    ELSE LET i    == executions[e].current_step_index
             name == CurrentStep(e).name
         IN /\ executions' = [executions EXCEPT ![e] =
                 [@ EXCEPT !.context = Put(Put(Update(@, context_updates),
                                               FeedbackKey(name), feedback),
                                           ReviewStatusKey(name), "rejected"),
                           !.step_results = Put(@, ApprovalKey(i), Approval(FALSE, feedback)),
                           !.status = "running"]]
            /\ pending_approvals' = pending_approvals \ {e}
            /\ run' = [run EXCEPT ![e].pc = RunWorkflowBegins]
            /\ Emits(<<"workflow_started">>)
            /\ awaiting' = {}
            /\ last_call' = Call("reject_step", e, 0, "")
            /\ entry' = [entry EXCEPT ![e] = Entry("reject_step", i)]
            /\ top_failure' = NoFailure
            /\ UNCHANGED <<workflow, agentVars, regVars, queueVars, trackerVars, rtVars, execVars, busVars>>

\* WorkflowEngine.reject_step up to the first await of _run_workflow
reject_step(e, feedback, context_updates) ==
  IF e \notin pending_approvals
    THEN /\ last_call' = Call("reject_step", e, 0, "NoPendingApproval")
         /\ UNCHANGED <<workflow, executions, pending_approvals, run, awaiting, entry,
                      top_failure, event_handlers, emitted>>
         /\ UNCHANGED <<agentVars, regVars, queueVars, trackerVars, rtVars, execVars, busVars>>
    ELSE LET i    == executions[e].current_step_index
             name == CurrentStep(e).name
         IN /\ executions' = [executions EXCEPT ![e] =
                 [@ EXCEPT !.context = Put(Put(Update(@, context_updates),
                                               FeedbackKey(name), feedback),
                                           ReviewStatusKey(name), "rejected"),
                           !.step_results = Put(@, ApprovalKey(i), Approval(FALSE, feedback)),
                           !.current_step_index = IF i > 0 THEN i - 1 ELSE i,
                           !.status = "running"]]
            /\ pending_approvals' = pending_approvals \ {e}
            /\ run' = [run EXCEPT ![e].pc = RunWorkflowBegins]
            /\ Emits(<<"workflow_started">>)
            /\ awaiting' = {}
            /\ last_call' = Call("reject_step", e, 0, "")
            /\ entry' = [entry EXCEPT ![e] = Entry("reject_step", i)]
            /\ top_failure' = NoFailure
            /\ UNCHANGED <<workflow, agentVars, regVars, queueVars, trackerVars, rtVars, execVars, busVars>>

NoBest == [type |-> None, result |-> None]

\* BaseAgent.reset called on an agent that is not executing a task
ResetAgent(a) ==
  /\ agent_state[a] \in {"error", "completed"}
  /\ reset(a)
  /\ best' = NoBest
  /\ UNCHANGED <<agents, agent_types, reg_order>>
  /\ UNCHANGED <<wfVars, queueVars, trackerVars, rtVars, execVars, busVars>>

\* AgentRegistry.register_agent(agent)
Register(a) ==
  /\ Len(TypeIds(agent_type(a))) < MaxListed
  /\ register_agent(a)
  /\ best' = NoBest
  /\ UNCHANGED <<agentVars, wfVars, queueVars, trackerVars, rtVars, execVars, busVars>>

\* AgentRegistry.unregister_agent(agent_id)
Unregister(a) ==
  /\ unregister_agent(a)
  /\ best' = NoBest
  /\ UNCHANGED <<agentVars, wfVars, queueVars, trackerVars, rtVars, execVars, busVars>>

\* AgentRegistry.get_best_agent(agent_type)
GetBest(t) ==
  /\ best' = [type |-> t, result |-> get_best_agent(t)]
  /\ UNCHANGED <<agents, agent_types, reg_order>>
  /\ UNCHANGED <<agentVars, wfVars, queueVars, trackerVars, rtVars, execVars, busVars>>

\* the agents that are handed tasks directly
Workers == {"ba-1", "ba-2"}
\* seconds process_task may take
Elapsed == {1, 600}

\* BaseAgent.execute_task is called on an available agent and reaches the
\* await of process_task
Submit(a) ==
  /\ is_available(a)
  /\ CanCount(a)
  /\ execute_task_start(a, NewTask("task", EmptyMap, a))
  /\ best' = NoBest
  /\ UNCHANGED <<agents, agent_types, reg_order>>
  /\ UNCHANGED <<wfVars, queueVars, trackerVars, rtVars, execVars, busVars>>

\* process_task returns or raises and execute_task runs to its end
Finish(a, outcome, dt) ==
  /\ agent_state[a] = "working"
  /\ execute_task_finish(a, outcome, dt)
  /\ best' = NoBest
  /\ UNCHANGED <<agents, agent_types, reg_order>>
  /\ UNCHANGED <<wfVars, queueVars, trackerVars, rtVars, execVars, busVars>>

(***************************************************************************)
(* Task queue (InMemoryTaskQueue) and DependencyTracker.                   *)
(*                                                                         *)
(* Task ids stand for the uuid4 strings AgentTask.create hands out: task k *)
(* is the k-th task created, 0 stands for "no task".  A task object is     *)
(* shared between the caller, the dictionaries and the heap items, so the  *)
(* heap items hold the id and tasks[id] holds the mutable fields.          *)
(***************************************************************************)
\* enum MessagePriority
MessagePriority ==
  [CRITICAL |-> 1, HIGH |-> 2, NORMAL |-> 3, LOW |-> 4, BACKGROUND |-> 5]

\* `return None` of dequeue; task ids count from 1
NoTaskId == 0

\* the tasks handed to enqueue: <<priority, assigned_agent, dependencies>>;
\* the second task created may depend on the first
TaskChoices(id) ==
  {<<"NORMAL", None, <<>> >>, <<"CRITICAL", None, <<>> >>, <<"NORMAL", "ba-1", <<>> >>}
    \cup (IF id = 2 THEN {<<"NORMAL", None, <<1>> >>} ELSE {})
\* whether the clock has advanced since the previous task was created
Ticks(id) == IF id = 1 THEN {0} ELSE {0, 1}
\* agent_type arguments of dequeue: no filter, a type with and one without agents
QueueTypes      == {None, "ba", "architect"}

\* AgentTask as the queue sees it
AgentTask(priority, created_at, assigned_agent, dependencies) ==
  [priority |-> priority, created_at |-> created_at,
   assigned_agent |-> assigned_agent, dependencies |-> dependencies,
   status |-> "pending", result |-> None, started_at |-> None,
   completed_at |-> None]

\* PriorityQueueItem.__init__
PriorityQueueItem(priority, timestamp, task) ==
  [priority |-> priority, timestamp |-> timestamp, task |-> task]

\* PriorityQueueItem.__lt__
ItemLess(x, y) ==
  IF x.priority # y.priority THEN x.priority < y.priority
  ELSE x.timestamp < y.timestamp

\* heapq stores the heap in a 0-based list
At(h, pos) == h[pos + 1]
Set(h, pos, x) == [h EXCEPT ![pos + 1] = x]

RECURSIVE SiftDownLoop(_, _, _, _)
SiftDownLoop(h, startpos, pos, newitem) ==
  LET parentpos == (pos - 1) \div 2
  IN IF pos > startpos /\ ItemLess(newitem, At(h, parentpos))
       THEN SiftDownLoop(Set(h, pos, At(h, parentpos)), startpos, parentpos, newitem)
       ELSE Set(h, pos, newitem)

\* heapq._siftdown
siftdown(h, startpos, pos) == SiftDownLoop(h, startpos, pos, At(h, pos))

RECURSIVE SiftUpLoop(_, _, _)
SiftUpLoop(h, pos, newitem) ==
  LET endpos   == Len(h)
      childpos == 2 * pos + 1
      rightpos == childpos + 1
      c        == IF rightpos < endpos /\ ~ItemLess(At(h, childpos), At(h, rightpos))
                    THEN rightpos ELSE childpos
  IN IF childpos < endpos
       THEN SiftUpLoop(Set(h, pos, At(h, c)), c, newitem)
       ELSE [heap |-> Set(h, pos, newitem), pos |-> pos]

\* heapq._siftup
siftup(h, pos) ==
  LET r == SiftUpLoop(h, pos, At(h, pos))
  IN siftdown(r.heap, pos, r.pos)

\* heapq.heappush
heappush(h, item) == siftdown(Append(h, item), 0, Len(h))

\* heapq.heappop on a non-empty heap
heappop(h) ==
  LET lastelt == h[Len(h)]
      rest    == SubSeq(h, 1, Len(h) - 1)
  IN IF rest # <<>>
       THEN [item |-> rest[1], heap |-> siftup(Set(rest, 0, lastelt), 0)]
       ELSE [item |-> lastelt, heap |-> <<>>]

\* task.assigned_agent.split("-")[0]
SplitType(a) ==
  IF a \in {"ba-1", "ba-2"} THEN "ba"
  ELSE IF a = "architect-1" THEN "architect"
  ELSE a

TypeQueue(t) == IF t \in DOMAIN type_queues THEN type_queues[t] ELSE <<>>

Tracked == DOMAIN tasks

\* the boolean a retry_task or cancel_task call on task id returned
QueueOp(op, id, ok) == [op |-> op, id |-> id, ok |-> ok]
NoQueueOp == QueueOp(None, NoTaskId, TRUE)

\* InMemoryTaskQueue.enqueue of the task object `id`, whose fields are `task`
enqueue(id, task) ==
  LET item == PriorityQueueItem(MessagePriority[task.priority], task.created_at, id)
  IN /\ tasks' = Put(tasks, id, task)
     /\ pending_tasks' = pending_tasks \cup {id}
     /\ queue' = heappush(queue, item)
     /\ type_queues' =
          IF task.assigned_agent # None
            THEN Put(type_queues, SplitType(task.assigned_agent),
                     heappush(TypeQueue(SplitType(task.assigned_agent)), item))
            ELSE type_queues
     /\ queue_metrics' = [queue_metrics EXCEPT !.total_enqueued = @ + 1]

CanEnqueue == queue_metrics.total_enqueued < MaxEnqueue

\* AgentTask.create followed by enqueue; the clock read by created_at may
\* or may not have advanced since the previous task was created
EnqueueNew(priority, agent, dependencies, tick) ==
  LET id == Cardinality(Tracked) + 1
  IN /\ CanEnqueue
     /\ clock' = clock + tick
     /\ enqueue(id, AgentTask(priority, clock', agent, dependencies))
     /\ served' = <<>>
     /\ last_q' = NoQueueOp
     /\ UNCHANGED <<running_tasks, completed_tasks, failed_tasks>>
     /\ UNCHANGED <<trackerVars, agentVars, regVars, wfVars, rtVars, execVars, busVars>>

\* enqueue called with a task the queue already tracks
EnqueueAgain(id) ==
  /\ CanEnqueue
  /\ id \in Tracked
  /\ enqueue(id, tasks[id])
  /\ served' = <<>>
  /\ last_q' = NoQueueOp
  /\ UNCHANGED <<clock, running_tasks, completed_tasks, failed_tasks>>
  /\ UNCHANGED <<trackerVars, agentVars, regVars, wfVars, rtVars, execVars, busVars>>

RECURSIVE DequeueLoop(_)
\* the `while queue` loop of dequeue: pop until a pending task shows up
DequeueLoop(h) ==
  IF h = <<>> THEN [heap |-> h, task |-> NoTaskId]
  ELSE LET p == heappop(h)
       IN IF p.item.task \in pending_tasks
            THEN [heap |-> p.heap, task |-> p.item.task]
            ELSE DequeueLoop(p.heap)

\* InMemoryTaskQueue.dequeue
dequeue(atype) ==
  LET typed == atype # None /\ atype \in DOMAIN type_queues
      r     == DequeueLoop(IF typed THEN type_queues[atype] ELSE queue)
  IN /\ IF typed
          THEN /\ type_queues' = [type_queues EXCEPT ![atype] = r.heap]
               /\ UNCHANGED queue
          ELSE /\ queue' = r.heap
               /\ UNCHANGED type_queues
     /\ pending_tasks' = pending_tasks \ {r.task}
     /\ running_tasks' = IF r.task = NoTaskId THEN running_tasks
                         ELSE running_tasks \cup {r.task}
     /\ served' = IF r.task = NoTaskId THEN served
                  ELSE IF atype = None THEN Append(served, r.task)
                  ELSE <<>>
     /\ last_q' = NoQueueOp
     /\ UNCHANGED <<tasks, completed_tasks, failed_tasks, queue_metrics, clock>>
     /\ UNCHANGED <<trackerVars, agentVars, regVars, wfVars, rtVars, execVars, busVars>>

\* task.assigned_agent.startswith(atype), on the agent ids and types
\* of the model
StartsWith(a, atype) ==
  \/ a = atype
  \/ atype = "ba" /\ a \in {"ba-1", "ba-2"}
  \/ atype = "architect" /\ a = "architect-1"

\* InMemoryTaskQueue.get_pending_tasks: the tasks listed (their order left out)
get_pending_tasks(atype) ==
  IF atype = None THEN pending_tasks
  ELSE {id \in pending_tasks :
          /\ tasks[id].assigned_agent # None
          /\ StartsWith(tasks[id].assigned_agent, atype)}

\* the outcome a worker reports for a task it took from the queue
UpdateStatuses == {"completed", "failed"}

\* the caller marks a task it is running as started and as completed or
\* failed (AgentTask.mark_started, mark_completed, mark_failed), then calls
\* InMemoryTaskQueue.update_task(task); a caller that marks nothing hands
\* over the task with the status it has
update_task(id, status) ==
  LET first == IF id \in pending_tasks THEN "pending"
               ELSE IF id \in running_tasks THEN "running"
               ELSE IF id \in completed_tasks THEN "completed"
               ELSE IF id \in failed_tasks THEN "failed"
               ELSE None
      After(name, bucket) ==
        (IF first = name THEN bucket \ {id} ELSE bucket)
          \cup (IF status = name THEN {id} ELSE {})
  IN /\ id \in running_tasks
     /\ tasks' = IF status = tasks[id].status THEN tasks
                 ELSE [tasks EXCEPT ![id].status = status,
                                    ![id].result = IF status = "failed" THEN "error"
                                                   ELSE "result",
                                    ![id].started_at = "utcnow",
                                    ![id].completed_at = "utcnow"]
     /\ pending_tasks'   = After("pending", pending_tasks)
     /\ running_tasks'   = After("running", running_tasks)
     /\ completed_tasks' = After("completed", completed_tasks)
     /\ failed_tasks'    = After("failed", failed_tasks)
     /\ queue_metrics' =
          [queue_metrics EXCEPT
             !.total_completed = IF status = "completed" THEN @ + 1 ELSE @,
             !.total_failed    = IF status = "failed" THEN @ + 1 ELSE @]
     /\ served' = <<>>
     /\ last_q' = NoQueueOp
     /\ UNCHANGED <<queue, type_queues, clock>>
     /\ UNCHANGED <<trackerVars, agentVars, regVars, wfVars, rtVars, execVars, busVars>>

\* a variant of retry_task that re-enqueues the task without resetting it
retry_task_no_reset(id) ==
  IF id \notin failed_tasks
    THEN /\ last_q' = QueueOp("retry_task", id, FALSE)
         /\ UNCHANGED <<queue, type_queues, tasks, pending_tasks, running_tasks,
                        completed_tasks, failed_tasks, queue_metrics, clock, served>>
         /\ UNCHANGED <<trackerVars, agentVars, regVars, wfVars, rtVars, execVars, busVars>>
    ELSE /\ CanEnqueue
         /\ enqueue(id, tasks[id])
         /\ failed_tasks' = failed_tasks \ {id}
         /\ served' = <<>>
         /\ last_q' = QueueOp("retry_task", id, TRUE)
         /\ UNCHANGED <<running_tasks, completed_tasks, clock>>
         /\ UNCHANGED <<trackerVars, agentVars, regVars, wfVars, rtVars, execVars, busVars>>

\* InMemoryTaskQueue.retry_task
retry_task(id) ==
  IF id \notin failed_tasks
    THEN /\ last_q' = QueueOp("retry_task", id, FALSE)
         /\ UNCHANGED <<queue, type_queues, tasks, pending_tasks, running_tasks,
                        completed_tasks, failed_tasks, queue_metrics, clock, served>>
         /\ UNCHANGED <<trackerVars, agentVars, regVars, wfVars, rtVars, execVars, busVars>>
    ELSE /\ CanEnqueue
         /\ enqueue(id, [tasks[id] EXCEPT !.status = "pending", !.result = None,
                                          !.started_at = None,
                                          !.completed_at = None])
         /\ failed_tasks' = failed_tasks \ {id}
         /\ served' = <<>>
         /\ last_q' = QueueOp("retry_task", id, TRUE)
         /\ UNCHANGED <<running_tasks, completed_tasks, clock>>
         /\ UNCHANGED <<trackerVars, agentVars, regVars, wfVars, rtVars, execVars, busVars>>

\* InMemoryTaskQueue.cancel_task
cancel_task(id) ==
  IF id \notin pending_tasks
    THEN /\ last_q' = QueueOp("cancel_task", id, FALSE)
         /\ UNCHANGED <<queue, type_queues, tasks, pending_tasks, running_tasks,
                        completed_tasks, failed_tasks, queue_metrics, clock, served>>
         /\ UNCHANGED <<trackerVars, agentVars, regVars, wfVars, rtVars, execVars, busVars>>
    ELSE /\ tasks' = [tasks EXCEPT ![id].status = "cancelled"]
         /\ pending_tasks' = pending_tasks \ {id}
         /\ served' = <<>>
         /\ last_q' = QueueOp("cancel_task", id, TRUE)
         /\ UNCHANGED <<queue, type_queues, running_tasks, completed_tasks,
                        failed_tasks, queue_metrics, clock>>
         /\ UNCHANGED <<trackerVars, agentVars, regVars, wfVars, rtVars, execVars, busVars>>

TrackerDeps(t) ==
  IF t \in DOMAIN tracker_dependencies THEN tracker_dependencies[t] ELSE <<>>

Range(s) == {s[k] : k \in 1..Len(s)}

\* DependencyTracker.add_dependency, called once for a dependency the task declares
add_dependency(task_id, depends_on) ==
  /\ task_id \in Tracked
  /\ depends_on \in Range(tasks[task_id].dependencies)
  /\ depends_on \notin Range(TrackerDeps(task_id))
  /\ tracker_dependencies' =
       Put(tracker_dependencies, task_id, Append(TrackerDeps(task_id), depends_on))
  /\ UNCHANGED tracker_completed
  /\ UNCHANGED <<queueVars, agentVars, regVars, wfVars, rtVars, execVars, busVars>>

\* DependencyTracker.mark_completed, called for a task whose status is completed
\* and that some task depends on
mark_completed(task_id) ==
  /\ task_id \in Tracked
  /\ \E t \in Tracked : task_id \in Range(tasks[t].dependencies)
  /\ tasks[task_id].status = "completed"
  /\ task_id \notin tracker_completed
  /\ tracker_completed' = tracker_completed \cup {task_id}
  /\ UNCHANGED tracker_dependencies
  /\ UNCHANGED <<queueVars, agentVars, regVars, wfVars, rtVars, execVars, busVars>>

\* DependencyTracker.can_execute
can_execute(task_id) ==
  \A dep \in Range(TrackerDeps(task_id)) : dep \in tracker_completed

\* DependencyTracker.get_ready_tasks
get_ready_tasks(pending) == {t \in pending : can_execute(t)}

\* InMemoryTaskQueue.__init__ and DependencyTracker.__init__
QueueInit ==
  /\ queue = <<>>
  /\ type_queues = [t \in {} |-> <<>>]
  /\ tasks = [t \in {} |-> AgentTask("NORMAL", 0, None, <<>>)]
  /\ pending_tasks = {}
  /\ running_tasks = {}
  /\ completed_tasks = {}
  /\ failed_tasks = {}
  /\ queue_metrics = [total_enqueued |-> 0, total_completed |-> 0, total_failed |-> 0]
  /\ clock = 0
  /\ served = <<>>
  /\ last_q = NoQueueOp
  /\ tracker_dependencies = [t \in {} |-> <<>>]
  /\ tracker_completed = {}


(***************************************************************************)
(* AgentMessage and AgentTask, and their dictionary forms.                 *)
(*                                                                         *)
(* An enum member is written by its name, a datetime as [sec, us] (whole   *)
(* seconds and microseconds), an Optional value as <<>> (None) or <<v>>.   *)
(* The text isoformat() produces is the sequence of its numeric parts: the *)
(* microseconds are left out when they are zero.                           *)
(***************************************************************************)
\* enum MessageType
MessageType ==
  [REQUEST |-> "request", RESPONSE |-> "response", NOTIFY |-> "notify",
   DELEGATE |-> "delegate", ERROR |-> "error", STATUS |-> "status",
   HANDOFF |-> "handoff", BROADCAST |-> "broadcast"]

\* Enum(value): the member that carries the value
EnumOf(enum, value) == CHOOSE name \in DOMAIN enum : enum[name] = value

\* datetime.isoformat
isoformat(dt) == IF dt.us = 0 THEN <<dt.sec>> ELSE <<dt.sec, dt.us>>

\* datetime.fromisoformat
fromisoformat(text) ==
  IF Len(text) = 1 THEN [sec |-> text[1], us |-> 0]
  ELSE [sec |-> text[1], us |-> text[2]]

\* dict.get(key, default)
Get(data, key, default) == IF key \in DOMAIN data THEN data[key] ELSE default

\* str(uuid.uuid4()) and datetime.utcnow() as from_dict would produce them
FreshUuid == "uuid4"
UtcNow    == [sec |-> 9, us |-> 9]

\* AgentMessage.to_dict
AgentMessage_to_dict(m) ==
  [sender |-> m.sender, recipient |-> m.recipient,
   message_type |-> MessageType[m.message_type],
   payload |-> m.payload,
   priority |-> MessagePriority[m.priority],
   context |-> m.context,
   correlation_id |-> m.correlation_id,
   parent_id |-> m.parent_id,
   timestamp |-> isoformat(m.timestamp),
   metadata |-> m.metadata]

\* a variant of from_dict that always generates the correlation id anew
AgentMessage_from_dict_fresh_id(data) ==
  [sender |-> data.sender, recipient |-> data.recipient,
   message_type |-> EnumOf(MessageType, data.message_type),
   payload |-> data.payload,
   priority |-> EnumOf(MessagePriority, Get(data, "priority", MessagePriority.NORMAL)),
   context |-> Get(data, "context", EmptyMap),
   correlation_id |-> FreshUuid,
   parent_id |-> Get(data, "parent_id", None),
   timestamp |-> IF "timestamp" \in DOMAIN data
                   THEN fromisoformat(data.timestamp) ELSE UtcNow,
   metadata |-> Get(data, "metadata", EmptyMap)]

\* AgentMessage.from_dict
AgentMessage_from_dict(data) ==
  [sender |-> data.sender, recipient |-> data.recipient,
   message_type |-> EnumOf(MessageType, data.message_type),
   payload |-> data.payload,
   priority |-> EnumOf(MessagePriority, Get(data, "priority", MessagePriority.NORMAL)),
   context |-> Get(data, "context", EmptyMap),
   correlation_id |-> Get(data, "correlation_id", FreshUuid),
   parent_id |-> Get(data, "parent_id", None),
   timestamp |-> IF "timestamp" \in DOMAIN data
                   THEN fromisoformat(data.timestamp) ELSE UtcNow,
   metadata |-> Get(data, "metadata", EmptyMap)]

\* `x.isoformat() if x else None`
IsoOrNone(opt) == IF opt # <<>> THEN <<isoformat(opt[1])>> ELSE <<>>
\* `datetime.fromisoformat(data[k]) if data.get(k) else None`
ParseOrNone(data, key) ==
  IF Get(data, key, <<>>) # <<>> THEN <<fromisoformat(data[key][1])>> ELSE <<>>

\* AgentTask.to_dict
AgentTask_to_dict(t) ==
  [task_id |-> t.task_id, task_type |-> t.task_type, input_data |-> t.input_data,
   assigned_agent |-> t.assigned_agent, status |-> t.status, result |-> t.result,
   created_at |-> isoformat(t.created_at),
   started_at |-> IsoOrNone(t.started_at),
   completed_at |-> IsoOrNone(t.completed_at),
   parent_task_id |-> t.parent_task_id,
   dependencies |-> t.dependencies,
   priority |-> MessagePriority[t.priority],
   metadata |-> t.metadata]

\* AgentTask.from_dict
AgentTask_from_dict(data) ==
  [task_id |-> data.task_id, task_type |-> data.task_type,
   input_data |-> data.input_data,
   assigned_agent |-> Get(data, "assigned_agent", None),
   status |-> Get(data, "status", "pending"),
   result |-> Get(data, "result", <<>>),
   created_at |-> IF "created_at" \in DOMAIN data
                    THEN fromisoformat(data.created_at) ELSE UtcNow,
   started_at |-> ParseOrNone(data, "started_at"),
   completed_at |-> ParseOrNone(data, "completed_at"),
   parent_task_id |-> Get(data, "parent_task_id", None),
   dependencies |-> Get(data, "dependencies", <<>>),
   priority |-> EnumOf(MessagePriority, Get(data, "priority", MessagePriority.NORMAL)),
   metadata |-> Get(data, "metadata", EmptyMap)]

Datetimes == {[sec |-> 0, us |-> 0], [sec |-> 5, us |-> 0], [sec |-> 5, us |-> 250]}
Dicts     == {EmptyMap, "k" :> "v"}

\* the messages and tasks put through the round trip
Messages ==
  [sender : {"ba-1"}, recipient : {"architect-1", "BROADCAST"},
   message_type : DOMAIN MessageType, payload : Dicts,
   priority : DOMAIN MessagePriority, context : {EmptyMap},
   correlation_id : {"c-1", ""}, parent_id : {None, "c-0"},
   timestamp : Datetimes, metadata : {EmptyMap}]

Tasks ==
  [task_id : {"t-1", ""}, task_type : {"analyze"}, input_data : {"k" :> "v"},
   assigned_agent : {None, "ba-1"}, status : {"pending", "running", "completed"},
   result : {<<>>, <<EmptyMap>>, <<"k" :> "v">>},
   created_at : {[sec |-> 0, us |-> 0], [sec |-> 5, us |-> 250]},
   started_at : {<<>>} \cup {<<d>> : d \in Datetimes},
   completed_at : {<<>>, <<[sec |-> 5, us |-> 250]>>},
   parent_task_id : {None}, dependencies : {<<>>, <<"t-0">>},
   priority : DOMAIN MessagePriority, metadata : {EmptyMap}]

\* message.to_dict()
MessageToDict ==
  /\ rt_pc = "msg_object"
  /\ rt_data' = AgentMessage_to_dict(rt_obj)
  /\ rt_pc' = "msg_dict"
  /\ UNCHANGED <<rt_obj, rt_copy>>
  /\ UNCHANGED <<agentVars, regVars, wfVars, queueVars, trackerVars, busVars, execVars>>

\* AgentMessage.from_dict(data)
MessageFromDict ==
  /\ rt_pc = "msg_dict"
  /\ rt_copy' = AgentMessage_from_dict(rt_data)
  /\ rt_pc' = "msg_copy"
  /\ UNCHANGED <<rt_obj, rt_data>>
  /\ UNCHANGED <<agentVars, regVars, wfVars, queueVars, trackerVars, busVars, execVars>>

\* task.to_dict()
TaskToDict ==
  /\ rt_pc = "task_object"
  /\ rt_data' = AgentTask_to_dict(rt_obj)
  /\ rt_pc' = "task_dict"
  /\ UNCHANGED <<rt_obj, rt_copy>>
  /\ UNCHANGED <<agentVars, regVars, wfVars, queueVars, trackerVars, busVars, execVars>>

\* AgentTask.from_dict(data)
TaskFromDict ==
  /\ rt_pc = "task_dict"
  /\ rt_copy' = AgentTask_from_dict(rt_data)
  /\ rt_pc' = "task_copy"
  /\ UNCHANGED <<rt_obj, rt_data>>
  /\ UNCHANGED <<agentVars, regVars, wfVars, queueVars, trackerVars, busVars, execVars>>

WfElapsed == {1}

(***************************************************************************)
(* Agents on the message bus: execute_task with its notifications, and     *)
(* receive_message with the reply to a request.                            *)
(***************************************************************************)
MaxRequests  == 2

\* the message_bus argument of BaseAgent.__init__: None or an InMemoryMessageBus
Buses == {"none", "memory"}

\* dataclass AgentMessage (timestamp: the default, datetime.utcnow)
AgentMessage(sender, recipient, type, payload, priority, context, cid, parent, meta) ==
  [sender |-> sender, recipient |-> recipient, message_type |-> type,
   payload |-> payload, priority |-> priority, context |-> context,
   correlation_id |-> cid, parent_id |-> parent,
   timestamp |-> UtcNow, metadata |-> meta]

\* AgentMessage.create_request; cid is the uuid4 the dataclass default draws
create_request(sender, recipient, action, data, priority, cid) ==
  AgentMessage(sender, recipient, "REQUEST", [action |-> action, data |-> data],
               priority, EmptyMap, cid, None, EmptyMap)

\* a variant of create_response that keeps the dataclass default of
\* correlation_id, a fresh uuid4
create_response_fresh_id(m, sender, payload) ==
  AgentMessage(sender, m.sender, "RESPONSE", payload, m.priority, m.context,
               FreshUuid, m.correlation_id,
               "in_response_to" :> m.correlation_id)

\* AgentMessage.create_response
create_response(m, sender, payload) ==
  AgentMessage(sender, m.sender, "RESPONSE", payload, m.priority, m.context,
               m.correlation_id, m.correlation_id,
               "in_response_to" :> m.correlation_id)

\* AgentMessage.create_error_response
create_error_response(m, sender, error_message) ==
  AgentMessage(sender, m.sender, "ERROR",
               [error |-> error_message, error_code |-> None,
                original_payload |-> m.payload],
               "HIGH", m.context, m.correlation_id, m.correlation_id, EmptyMap)

\* AgentMessage.create_broadcast
create_broadcast(sender, event, data) ==
  AgentMessage(sender, "BROADCAST", "BROADCAST", [event |-> event, data |-> data],
               "NORMAL", EmptyMap, FreshUuid, None, EmptyMap)

\* BaseAgent.send_message: publish when the agent has a bus, else only a
\* warning is logged
send_message(a, log, m) == IF message_bus[a] = "none" THEN log ELSE Append(log, m)

\* _notify_task_completion
notify_task_completion(a, log, task, result) ==
  IF message_bus[a] = "none" THEN log
  ELSE send_message(a, log,
         create_broadcast(a, "task_completed",
                          [task_type |-> task.task_type, result |-> result]))

\* a variant of _notify_task_failure that publishes nothing
notify_task_failure_silent(a, log, task, error) == log

\* _notify_task_failure
notify_task_failure(a, log, task, error) ==
  IF message_bus[a] = "none" THEN log
  ELSE send_message(a, log,
         create_broadcast(a, "task_failed",
                          [task_type |-> task.task_type, error |-> error]))

\* what an execute_task call did last: the error it raised ("" for none)
\* and the status it left the task with
AgentCall(op, a, err, task_status) ==
  [op |-> op, agent |-> a, err |-> err, task_status |-> task_status]
NoCall == AgentCall(None, None, "", None)

\* what process_task returns
TaskResult(a) == "result" :> a

\* the agents that are sent requests and tasks
Receivers == {"ba-1"}

\* the requests a client may send to agent a
\* the correlation ids (uuid4 strings) of the requests, in the order sent
RequestIds == <<"c-1", "c-2", "c-3", "c-4">>
Requests(a, cid) ==
  { create_request("client", a, action, EmptyMap, priority, cid) :
      action \in {"analyze", "design"}, priority \in {"NORMAL", "CRITICAL"} }

\* InMemoryMessageBus.publish puts every message it appends to the history
\* on the queue as well; nothing else of the bus changes
QueuePublished ==
  /\ bus_queue' = bus_queue \o [i \in 1..(Len(published') - Len(published)) |->
                                  Len(published) + i]
  /\ UNCHANGED <<bus_running, sub_order, direct_handlers, loops, deliveries,
                 routed, named>>

\* what the caller of execute_task gets from the state setter: nothing, or
\* the exception of a callback that left it
Escaped == IF state_changes'.escaped THEN "callback_error" ELSE ""

\* a variant of execute_task without the is_available check
ExecuteTask_unchecked(a) ==
  /\ state_before' = agent_state[a]
  /\ CanCount(a)
  /\ execute_task_start(a, NewTask("task", EmptyMap, a))
  /\ agent_call' = AgentCall("execute_task", a, Escaped, "running")
  /\ UNCHANGED <<message_bus, published, received, handling, routeVars>>
  /\ UNCHANGED <<regVars, wfVars, queueVars, trackerVars, rtVars, execVars>>

\* BaseAgent.execute_task called directly, up to the await of process_task
\* or to the RuntimeError of an agent that is not available
ExecuteTask(a) ==
  /\ state_before' = agent_state[a]
  /\ IF ~is_available(a)
       THEN /\ agent_call' = AgentCall("execute_task", a, "AgentUnavailable", "pending")
            /\ UNCHANGED agentVars
       ELSE /\ CanCount(a)
            /\ execute_task_start(a, NewTask("task", EmptyMap, a))
            /\ agent_call' = AgentCall("execute_task", a, Escaped, "running")
  /\ UNCHANGED <<message_bus, published, received, handling, routeVars>>
  /\ UNCHANGED <<regVars, wfVars, queueVars, trackerVars, rtVars, execVars>>

\* the reply _handle_request sends after execute_task returned or raised
Reply(a, log, req, ok, err) ==
  send_message(a, log,
    IF ok THEN create_response(req, a, [status |-> "success", result |-> TaskResult(a)])
    ELSE create_error_response(req, a, err))

\* BaseAgent.receive_message with a request: _handle_request synthesizes a
\* task and calls execute_task
ReceiveRequest(a, req) ==
  /\ state_before' = agent_state[a]
  /\ Len(received) < MaxRequests
  /\ IF ~is_available(a)
       THEN /\ agent_call' = AgentCall("execute_task", a, "AgentUnavailable", "pending")
            /\ received' = Append(received, [msg |-> req, outcome |-> "unavailable"])
            /\ published' = Reply(a, published, req, FALSE, "AgentUnavailable")
            /\ UNCHANGED <<agentVars, handling>>
       ELSE /\ CanCount(a)
            /\ execute_task_start(a, NewTask(req.payload.action, req.payload.data, a))
            /\ agent_call' = AgentCall("execute_task", a, Escaped, "running")
            /\ received' = Append(received, [msg |-> req, outcome |-> "pending"])
            /\ handling' = [handling EXCEPT ![a] = Len(received) + 1]
            /\ UNCHANGED published
  /\ QueuePublished
  /\ UNCHANGED message_bus
  /\ UNCHANGED <<regVars, wfVars, queueVars, trackerVars, rtVars, execVars>>

\* process_task returns or raises: execute_task runs to its end, and the
\* _handle_request that called it sends its reply
ProcessTaskDone(a, outcome, dt) ==
  /\ processing[a] > 0
  /\ state_before' = agent_state[a]
  /\ execute_task_finish(a, outcome, dt)
  /\ LET ok   == outcome = "ok" /\ Escaped = ""
         err  == IF Escaped # "" THEN Escaped ELSE "task_failed"
         log1 == IF ok THEN notify_task_completion(a, published, current_task[a], TaskResult(a))
                 ELSE notify_task_failure(a, published, current_task[a], err)
         k    == handling[a]
     IN /\ agent_call' = AgentCall("process_task", a, IF ok THEN "" ELSE err,
                                   IF ok THEN "completed" ELSE "failed")
        /\ IF k = 0
             THEN /\ published' = log1
                  /\ UNCHANGED <<received, handling>>
             ELSE /\ published' = Reply(a, log1, received[k].msg, ok, err)
                  /\ received' = [received EXCEPT ![k].outcome = IF ok THEN "ok" ELSE "failed"]
                  /\ handling' = [handling EXCEPT ![a] = 0]
  /\ QueuePublished
  /\ UNCHANGED message_bus
  /\ UNCHANGED <<regVars, wfVars, queueVars, trackerVars, rtVars, execVars>>

\* BaseAgent.register_state_callback called on an agent
RegisterStateCallback(a, kind) ==
  /\ register_state_callback(a, kind)
  /\ UNCHANGED <<regVars, wfVars, queueVars, trackerVars, rtVars, execVars, busVars>>

\* BaseAgent.reset on an agent that is not executing a task
Reset(a) ==
  /\ agent_state[a] \in {"error", "completed"}
  /\ state_before' = agent_state[a]
  /\ reset(a)
  /\ agent_call' = AgentCall("reset", a, "", None)
  /\ UNCHANGED <<message_bus, published, received, handling, routeVars>>
  /\ UNCHANGED <<regVars, wfVars, queueVars, trackerVars, rtVars, execVars>>

(***************************************************************************)
(* AgenticGraphExecutor: the saved SDLC state and the review flow.  The    *)
(* review types are the constants of utils.constants, taken by name.       *)
(***************************************************************************)
MaxReviews == 2   \* graph_review_flow calls after one start_workflow

TaskIds == {"t1"}

ReviewTypes == <<"REVIEW_USER_STORIES", "REVIEW_DESIGN_DOCUMENTS", "REVIEW_CODE",
                 "REVIEW_SECURITY_RECOMMENDATIONS", "REVIEW_TEST_CASES",
                 "REVIEW_QA_TESTING">>
END_NODE == "END_NODE"

Mapping(agent, task, next_approved, state_field, status_field, feedback_field) ==
  [agent |-> agent, task |-> task, next_approved |-> next_approved,
   state_field |-> state_field, status_field |-> status_field,
   feedback_field |-> feedback_field]
NoMapping == Mapping(None, None, None, None, None, None)

\* agent_mapping.get(review_type) of _graph_review_flow_async
agent_mapping(review_type) ==
  CASE review_type = "REVIEW_USER_STORIES" ->
         Mapping("business_analyst", "revise_user_stories", "REVIEW_DESIGN_DOCUMENTS",
                 "user_stories", "user_stories_review_status", "user_stories_feedback")
    [] review_type = "REVIEW_DESIGN_DOCUMENTS" ->
         Mapping("architect", "create_design_document", "REVIEW_CODE",
                 "design_documents", "design_documents_review_status",
                 "design_documents_feedback")
    [] review_type = "REVIEW_CODE" ->
         Mapping("developer", "generate_code", "REVIEW_SECURITY_RECOMMENDATIONS",
                 "code_generated", "code_review_status", "code_review_feedback")
    [] review_type = "REVIEW_SECURITY_RECOMMENDATIONS" ->
         Mapping("security", "security_review", "REVIEW_TEST_CASES",
                 "security_recommendations", "security_review_status",
                 "security_review_comments")
    [] review_type = "REVIEW_TEST_CASES" ->
         Mapping("qa", "generate_test_cases", "REVIEW_QA_TESTING",
                 "test_cases", "test_case_review_status", "test_case_review_feedback")
    [] review_type = "REVIEW_QA_TESTING" ->
         Mapping("qa", "qa_testing", END_NODE,
                 "qa_testing_comments", "qa_testing_status", "qa_testing_feedback")
    [] OTHER -> NoMapping

\* AgenticGraphExecutor._get_next_agent: agent, task and state_field
get_next_agent(current_review) ==
  CASE current_review = "REVIEW_USER_STORIES" ->
         Mapping("architect", "create_design_document", None, "design_documents", None, None)
    [] current_review = "REVIEW_DESIGN_DOCUMENTS" ->
         Mapping("developer", "generate_code", None, "code_generated", None, None)
    [] current_review = "REVIEW_CODE" ->
         Mapping("security", "security_review", None, "security_recommendations", None, None)
    [] current_review = "REVIEW_SECURITY_RECOMMENDATIONS" ->
         Mapping("qa", "generate_test_cases", None, "test_cases", None, None)
    [] current_review = "REVIEW_TEST_CASES" ->
         Mapping("qa", "qa_testing", None, "qa_testing_comments", None, None)
    [] current_review = "REVIEW_QA_TESTING" ->
         Mapping("devops", "deploy", None, "deployment_feedback", None, None)
    [] OTHER -> NoMapping

\* AgenticGraphExecutor._create_initial_state
create_initial_state(project_name, task_id) ==
  [k \in {"project_name", "task_id", "requirements", "user_stories", "design_documents",
          "code_generated", "security_recommendations", "test_cases",
          "qa_testing_comments", "deployment_feedback", "artifacts", "next_node"} |->
     CASE k = "project_name" -> project_name
       [] k = "task_id" -> task_id
       [] k = "requirements" -> "[]"
       [] k = "artifacts" -> "{}"
       [] k = "next_node" -> "REVIEW_USER_STORIES"
       [] OTHER -> None]

NoSession == [project_id |-> None, execution_id |-> None]

ReviewCall(op, task_id, status, feedback, review_type, err, state, stage, task, n) ==
  [op |-> op, task_id |-> task_id, status |-> status, feedback |-> feedback,
   review_type |-> review_type, err |-> err, state |-> state,
   stage |-> stage, task |-> task, n |-> n]
NoReview == ReviewCall(None, None, None, None, None, "", EmptyMap, None, None, 0)

\* AgenticGraphExecutor.__init__ (use_agents defaults to True); nothing is
\* saved yet: a task without a state reads as the empty (falsy) state
ExecutorInit ==
  /\ saved_states = [t \in TaskIds |-> EmptyMap]
  /\ sessions = [t \in TaskIds |-> NoSession]
  /\ agentic = [use_agents |-> TRUE, initialized |-> FALSE, system |-> FALSE]
  /\ review_call = NoReview

\* AgenticGraphExecutor._ensure_initialized; outcome tells whether building
\* and initializing the AgenticSystem raised
ensure_initialized(outcome) ==
  IF agentic.initialized \/ ~agentic.use_agents THEN agentic
  ELSE IF outcome = "ok"
    THEN [use_agents |-> TRUE, initialized |-> TRUE, system |-> TRUE]
    ELSE [use_agents |-> FALSE, initialized |-> TRUE, system |-> TRUE]

\* what the calls into the agentic system do: an approve_stage/reject_stage
\* returns or raises; an execute_agent_task returns a result with or without
\* the expected field, or raises
StageOutcomes == {"ok", "raises"}
TaskOutcomes  == {"field", "no_field", "raises"}

\* the agent part of _graph_review_flow_async (lines 405-495) applied to the
\* updated state: the state it leaves, which calls it made, and whether an
\* exception left it; tried tells whether the calls stand inside try/except
AgentPart(state, session, status, feedback, review_type, o_stage, o_task, tried) ==
  LET mapping == agent_mapping(review_type)
      called  == \/ /\ status = "approved"
                    /\ session.project_id # None /\ session.execution_id # None
                 \/ /\ status = "feedback" /\ session.project_id # None
      field   == IF status = "approved" THEN get_next_agent(review_type).state_field
                 ELSE mapping.state_field
  IN IF ~called THEN [state |-> state, stage |-> None, task |-> None, raised |-> FALSE]
     ELSE IF o_stage = "raises"
       THEN [state |-> state, stage |-> "raises", task |-> None, raised |-> ~tried]
       ELSE [state |-> IF o_task = "field" THEN Put(state, field, "result") ELSE state,
             stage |-> "ok", task |-> o_task,
             raised |-> o_task = "raises" /\ ~tried]

\* a variant of the agent part whose calls stand outside any try
agent_review_untried(state, session, status, feedback, review_type, o_stage, o_task) ==
  AgentPart(state, session, status, feedback, review_type, o_stage, o_task, FALSE)

\* the agent part of _graph_review_flow_async
agent_review(state, session, status, feedback, review_type, o_stage, o_task) ==
  AgentPart(state, session, status, feedback, review_type, o_stage, o_task, TRUE)

\* AgenticGraphExecutor.start_workflow without a fallback graph: the cache
\* is flushed and the initial state saved; the session is recorded when the
\* agentic system created the project and started its workflow
start_workflow(t, o_init, o_project) ==
  LET g == ensure_initialized(o_init)
      created == g.use_agents /\ g.system /\ o_project = "ok"
      state == create_initial_state("project", t)
  IN /\ agentic' = g
     /\ saved_states' = [x \in TaskIds |-> IF x = t THEN state ELSE EmptyMap]
     /\ sessions' = [sessions EXCEPT ![t] =
                       IF created THEN [project_id |-> "p1", execution_id |-> "x1"]
                       ELSE NoSession]
     /\ review_call' = ReviewCall("start_workflow", t, None, None, None, "", state,
                                  None, None, 0)
     /\ UNCHANGED <<agentVars, regVars, wfVars, queueVars, trackerVars, rtVars, busVars>>

\* AgenticGraphExecutor.graph_review_flow
graph_review_flow(t, status, feedback, review_type, o_init, o_stage, o_task) ==
  LET g       == ensure_initialized(o_init)
      saved   == saved_states[t]
      mapping == agent_mapping(review_type)
      updated == Put(Put(Put(saved, mapping.status_field, status),
                         mapping.feedback_field, feedback),
                     "next_node",
                     IF status = "feedback" THEN review_type ELSE mapping.next_approved)
      r       == IF g.use_agents /\ g.system
                   THEN agent_review(updated, sessions[t], status, feedback,
                                     review_type, o_stage, o_task)
                   ELSE [state |-> updated, stage |-> None, task |-> None,
                         raised |-> FALSE]
      n       == review_call.n + 1
  IN /\ review_call.n < MaxReviews
     /\ agentic' = g
     /\ IF saved = EmptyMap
          THEN /\ review_call' = ReviewCall("graph_review_flow", t, status, feedback,
                                            review_type, "no_state", EmptyMap, None, None, n)
               /\ UNCHANGED saved_states
        ELSE IF mapping = NoMapping
          THEN /\ review_call' = ReviewCall("graph_review_flow", t, status, feedback,
                                            review_type, "unsupported", EmptyMap, None,
                                            None, n)
               /\ UNCHANGED saved_states
        ELSE IF r.raised
          THEN /\ review_call' = ReviewCall("graph_review_flow", t, status, feedback,
                                            review_type, "agent_error", EmptyMap, r.stage,
                                            r.task, n)
               /\ UNCHANGED saved_states
        ELSE /\ review_call' = ReviewCall("graph_review_flow", t, status, feedback,
                                          review_type, "", r.state, r.stage, r.task, n)
             /\ saved_states' = [saved_states EXCEPT ![t] = r.state]
     /\ UNCHANGED sessions
     /\ UNCHANGED <<agentVars, regVars, wfVars, queueVars, trackerVars, rtVars, busVars>>

(***************************************************************************)
(* InMemoryMessageBus: publish, the consumer loops and the routing.        *)
(***************************************************************************)
MaxLoops     == 2   \* _process_messages tasks alive at a time
MaxPublished == 2   \* messages published on the bus

\* a slot of loops without a task
NoLoop == [pc |-> "off", msg |-> 0, stage |-> None, pos |-> 0, size |-> 0]

\* InMemoryMessageBus.__init__
RouteInit ==
  /\ bus_running = FALSE
  /\ bus_queue = <<>>
  /\ sub_order = <<>>
  /\ direct_handlers = {}
  /\ loops = [l \in 1..MaxLoops |-> NoLoop]
  /\ deliveries = <<>>
  /\ routed = [k \in {} |-> 0]
  /\ named = [k \in {} |-> {}]

\* what the bus actions leave alone
busOther == <<agentVars, regVars, wfVars, queueVars, trackerVars, rtVars, execVars,
              message_bus, received, handling, agent_call, state_before>>

\* the subscribers, in the order they subscribe, and the agent ids that
\* register a direct handler
SubIds    == <<"s1", "s2", "s3">>
DirectIds == {"s1"}

\* the message_types and sender_filter each subscriber passes to subscribe;
\* Subscription.__init__ stores `set(message_types) if message_types else None`
message_types_of(id) == IF id = "s3" THEN {"REQUEST"} ELSE {}
sender_filter_of(id) == IF id = "s2" THEN "x" ELSE None

\* Subscription.matches
matches(id, m) ==
  IF message_types_of(id) # {} /\ m.message_type \notin message_types_of(id)
    THEN FALSE
  ELSE IF sender_filter_of(id) # None /\ m.sender # sender_filter_of(id)
    THEN FALSE
  ELSE TRUE

\* the messages the clients of the bus publish
BusMessages ==
  {create_broadcast(sender, "e", EmptyMap) : sender \in {"x", "y"}}
    \cup {create_request("x", "s1", "act", EmptyMap, "NORMAL", "c-1")}

\* a handler invocation: the handler (<<"direct", id>> or <<"sub", id>>) and
\* how it ended: "running" until it returns ("ok") or raises ("raised")
Invocation(handler, outcome) == [handler |-> handler, outcome |-> outcome]

\* the handlers _route_message delivers message m to when subs are the
\* subscribers and directs the ids with a direct handler: every matching
\* subscription for a broadcast; the recipient's direct handler and its
\* matching subscription otherwise
RoutingRule(m, subs, directs) ==
  IF m.recipient = "BROADCAST"
    THEN {<<"sub", id>> : id \in {i \in Range(subs) : matches(i, m)}}
    ELSE {<<"direct", id>> : id \in {m.recipient} \cap directs}
           \cup {<<"sub", id>> :
                   id \in {i \in Range(subs) : i = m.recipient /\ matches(i, m)}}

\* InMemoryMessageBus.start: nothing when running, else a new
\* _process_messages task
Start ==
  /\ IF bus_running
       THEN UNCHANGED <<bus_running, loops>>
       ELSE /\ bus_running' = TRUE
            /\ \E L \in 1..MaxLoops :
                 /\ loops[L].pc = "off"
                 /\ \A L2 \in 1..(L - 1) : loops[L2].pc # "off"
                 /\ loops' = [loops EXCEPT ![L].pc = "check"]
  /\ UNCHANGED <<bus_queue, sub_order, direct_handlers, deliveries, routed, named>>
  /\ UNCHANGED <<published, busOther>>

\* InMemoryMessageBus.stop
Stop ==
  /\ bus_running' = FALSE
  /\ UNCHANGED <<bus_queue, sub_order, direct_handlers, loops, deliveries,
                 routed, named>>
  /\ UNCHANGED <<published, busOther>>

\* InMemoryMessageBus.publish
Publish(m) ==
  /\ Len(published) < MaxPublished
  /\ published' = Append(published, m)
  /\ bus_queue' = Append(bus_queue, Len(published) + 1)
  /\ routed' = Put(routed, Len(published) + 1, 0)
  /\ deliveries' = Put(deliveries, Len(published) + 1, <<>>)
  /\ UNCHANGED <<bus_running, sub_order, direct_handlers, loops, named>>
  /\ UNCHANGED busOther

\* InMemoryMessageBus.subscribe, by a subscriber not yet subscribed
Subscribe(id) ==
  /\ id \notin Range(sub_order)
  /\ sub_order' = Append(sub_order, id)
  /\ UNCHANGED <<bus_running, bus_queue, direct_handlers, loops, deliveries,
                 routed, named>>
  /\ UNCHANGED <<published, busOther>>

\* InMemoryMessageBus.register_direct_handler
RegisterDirect(id) ==
  /\ id \notin direct_handlers
  /\ direct_handlers' = direct_handlers \cup {id}
  /\ UNCHANGED <<bus_running, bus_queue, sub_order, loops, deliveries,
                 routed, named>>
  /\ UNCHANGED <<published, busOther>>

\* _process_messages: the test of `while self._running`; the task ends when
\* it finds the flag cleared
LoopCheck(L) ==
  /\ loops[L].pc = "check"
  /\ loops' = [loops EXCEPT ![L] = IF bus_running THEN [@ EXCEPT !.pc = "get"]
                                    ELSE NoLoop]
  /\ UNCHANGED <<bus_running, bus_queue, sub_order, direct_handlers, deliveries,
                 routed, named>>
  /\ UNCHANGED <<published, busOther>>

\* _process_messages: wait_for(queue.get(), 1.0) times out on an empty queue
LoopGetTimeout(L) ==
  /\ loops[L].pc = "get"
  /\ bus_queue = <<>>
  /\ loops' = [loops EXCEPT ![L].pc = "check"]
  /\ UNCHANGED <<bus_running, bus_queue, sub_order, direct_handlers, deliveries,
                 routed, named>>
  /\ UNCHANGED <<published, busOther>>

\* _process_messages takes the head of the queue
LoopGet(L) ==
  /\ loops[L].pc = "get"
  /\ bus_queue # <<>>
  /\ bus_queue' = Tail(bus_queue)
  /\ loops' = [loops EXCEPT ![L] =
                 [@ EXCEPT !.pc = "route", !.msg = Head(bus_queue), !.stage = "begin"]]
  /\ UNCHANGED <<bus_running, sub_order, direct_handlers, deliveries, routed, named>>
  /\ UNCHANGED <<published, busOther>>

\* the iteration `for subscription in self._subscriptions.values()` begins:
\* the iterator remembers the size of the dict
IterSubscriptions(loop) ==
  [loop EXCEPT !.pc = "route", !.stage = "subs", !.pos = 0, !.size = Len(sub_order)]

\* the subscriptions the loop of _route_message delivers m to
Deliverable(id, m) ==
  /\ matches(id, m)
  /\ m.recipient = "BROADCAST" \/ id = m.recipient

\* the handler is called: _deliver_to_subscriber, or the direct handler
CallHandler(L, handler) ==
  deliveries' = [deliveries EXCEPT ![loops[L].msg] =
                   Append(@, Invocation(handler, "running"))]

\* the least element of a set of numbers
Least(S) == CHOOSE i \in S : \A j \in S : i <= j

\* _route_message from its call, or from the return of a handler, up to its
\* next await: the direct handler of the recipient, then the subscriptions
\* in dict order. The iterator raises RuntimeError when the dict changed
\* size since the iteration began; the for statement is outside the try
\* blocks, so the error ends _route_message and is logged by
\* _process_messages
RouteStep(L) ==
  /\ loops[L].pc = "route"
  /\ LET loop   == loops[L]
         m      == published[loop.msg]
         begin  == loop.stage = "begin"
         direct == begin /\ m.recipient # "BROADCAST" /\ m.recipient \in direct_handlers
         iter   == IF loop.stage = "subs" THEN loop ELSE IterSubscriptions(loop)
         next   == {i \in (iter.pos + 1)..iter.size : Deliverable(sub_order[i], m)}
     IN /\ IF begin
             THEN /\ routed' = [routed EXCEPT ![loop.msg] = @ + 1]
                  /\ named' = Put(named, loop.msg, RoutingRule(m, sub_order, direct_handlers))
             ELSE UNCHANGED <<routed, named>>
        /\ IF direct
             THEN /\ CallHandler(L, <<"direct", m.recipient>>)
                  /\ loops' = [loops EXCEPT ![L].pc = "in_handler", ![L].stage = "direct"]
           ELSE IF Len(sub_order) # iter.size
             THEN /\ loops' = [loops EXCEPT ![L] = [NoLoop EXCEPT !.pc = "check"]]
                  /\ UNCHANGED deliveries
           ELSE IF next # {}
             THEN /\ CallHandler(L, <<"sub", sub_order[Least(next)]>>)
                  /\ loops' = [loops EXCEPT ![L] =
                                 [iter EXCEPT !.pc = "in_handler", !.pos = Least(next)]]
           ELSE /\ loops' = [loops EXCEPT ![L] = [NoLoop EXCEPT !.pc = "check"]]
                /\ UNCHANGED deliveries
  /\ UNCHANGED <<bus_running, bus_queue, sub_order, direct_handlers>>
  /\ UNCHANGED <<published, busOther>>

\* the handler's outcome is recorded
HandlerOutcome(L, outcome) ==
  deliveries' = [deliveries EXCEPT ![loops[L].msg] =
                   [@ EXCEPT ![Len(@)].outcome = outcome]]

\* a variant of the consumer loop without its try blocks: an exception of
\* a handler ends the _process_messages task
HandlerEnd_untried(L, outcome) ==
  /\ loops[L].pc = "in_handler"
  /\ HandlerOutcome(L, outcome)
  /\ loops' = [loops EXCEPT ![L] =
                 IF outcome = "raised" THEN NoLoop
                 ELSE [@ EXCEPT !.pc = "route",
                                !.stage = IF @ = "direct" THEN "iter" ELSE @]]
  /\ UNCHANGED <<bus_running, bus_queue, sub_order, direct_handlers, routed, named>>
  /\ UNCHANGED <<published, busOther>>

\* the awaited handler returns or raises; _route_message logs the exception
\* and goes on
HandlerEnd(L, outcome) ==
  /\ loops[L].pc = "in_handler"
  /\ HandlerOutcome(L, outcome)
  /\ loops' = [loops EXCEPT ![L] =
                 [@ EXCEPT !.pc = "route",
                           !.stage = IF @ = "direct" THEN "iter" ELSE @]]
  /\ UNCHANGED <<bus_running, bus_queue, sub_order, direct_handlers, routed, named>>
  /\ UNCHANGED <<published, busOther>>

\* the agents of the other specifications: on an in-memory bus, idle
BusInit ==
  /\ message_bus = [a \in AgentIds |-> "memory"]
  /\ published = <<>>
  /\ received = <<>>
  /\ handling = [a \in AgentIds |-> 0]
  /\ agent_call = NoCall
  /\ state_before = None
  /\ RouteInit

\* no round trip in progress
RTOff ==
  /\ rt_pc = "off"
  /\ rt_obj = EmptyMap
  /\ rt_data = EmptyMap
  /\ rt_copy = EmptyMap

\* AgentRegistry after one agent of each type was registered
RegistryInit ==
  /\ agents = {"ba-1", "architect-1"}
  /\ agent_types = ("ba" :> <<"ba-1">>) @@ ("architect" :> <<"architect-1">>)
  /\ reg_order = <<"ba-1", "architect-1">>
  /\ best = NoBest

Init ==
  /\ AgentInit
  /\ RegistryInit
  /\ workflow \in Workflows
  /\ executions = [e \in {} |-> WorkflowExecution(EmptyMap)]
  /\ pending_approvals = {}
  /\ run = [e \in ExecIds |-> IdleRun]
  /\ awaiting = {}
  /\ entry = [e \in ExecIds |-> Entry(None, 0)]
  /\ top_failure = NoFailure
  /\ last_call = Call("init", "", 0, "")
  /\ EventInit
  /\ ExecutorInit
  /\ QueueInit
  /\ RTOff
  /\ BusInit

Next ==
  \/ \E e \in ExecIds, ctx \in InitialContexts : execute_workflow(e, ctx)
  \/ \E e \in ExecIds : CompleteWorkflow(e)
  \/ \E e \in ExecIds : RunReviewStep(e)
  \/ \E e \in ExecIds : StartAgentStep(e)
  \/ \E e \in ExecIds, o \in WfOutcomes, dt \in WfElapsed : FinishAgentStep(e, o, dt)
  \/ \E e \in ExecIds : EnterStep(e)
  \/ \E e \in ExecIds, j \in 1..3 : RunReviewSubStep(e, j)
  \/ \E e \in ExecIds, j \in 1..3 : StartAgentSubStep(e, j)
  \/ \E e \in ExecIds, j \in 1..3, o \in WfOutcomes, dt \in WfElapsed : FinishAgentSubStep(e, j, o, dt)
  \/ \E e \in ExecIds, a \in ApproveArgs : approve_step(e, a[1], a[2])
  \/ \E e \in ExecIds, a \in RejectArgs : reject_step(e, a[1], a[2])

vars == <<agentVars, regVars, wfVars, queueVars, trackerVars, rtVars, execVars, busVars>>

Spec == Init /\ [][Next]_vars

(***************************************************************************)
(* SpecEvents: the engine with event sinks.  Handlers, some of which       *)
(* raise, are registered at any time while a workflow with agent steps, a  *)
(* review and a parallel step runs.                                        *)
(***************************************************************************)
EventWorkflows ==
  { EndToEnd,
    << create_parallel_step(TopId(1), TopName(1),
         << create_agent_step(SubId(1, 1), SubName(1, 1), "ba", {}, {}, "fail"),
            create_human_review_step(SubId(1, 2), SubName(1, 2)) >>),
       create_agent_step(TopId(2), TopName(2), "architect", {}, {}, "skip") >> }

InitEvents ==
  /\ AgentInit
  /\ RegistryInit
  /\ workflow \in EventWorkflows
  /\ executions = [e \in {} |-> WorkflowExecution(EmptyMap)]
  /\ pending_approvals = {}
  /\ run = [e \in ExecIds |-> IdleRun]
  /\ awaiting = {}
  /\ entry = [e \in ExecIds |-> Entry(None, 0)]
  /\ top_failure = NoFailure
  /\ last_call = Call("init", "", 0, "")
  /\ EventInit
  /\ ExecutorInit
  /\ QueueInit
  /\ RTOff
  /\ BusInit

NextEvents ==
  \/ Next
  \/ \E kind \in HandlerKinds : on_event(kind)

SpecEvents == InitEvents /\ [][NextEvents]_vars

\* a fresh queue and tracker next to idle agents
InitQueue ==
  /\ AgentInit
  /\ RegistryInit
  /\ workflow = <<>>
  /\ executions = [e \in {} |-> WorkflowExecution(EmptyMap)]
  /\ pending_approvals = {}
  /\ run = [e \in ExecIds |-> IdleRun]
  /\ awaiting = {}
  /\ entry = [e \in ExecIds |-> Entry(None, 0)]
  /\ top_failure = NoFailure
  /\ last_call = Call("init", "", 0, "")
  /\ EventInit
  /\ ExecutorInit
  /\ QueueInit
  /\ RTOff
  /\ BusInit

\* an empty registry next to idle agents
InitReg ==
  /\ AgentInit
  /\ agents = {}
  /\ agent_types = [t \in {} |-> <<>>]
  /\ reg_order = <<>>
  /\ best = NoBest
  /\ workflow = <<>>
  /\ executions = [e \in {} |-> WorkflowExecution(EmptyMap)]
  /\ pending_approvals = {}
  /\ run = [e \in ExecIds |-> IdleRun]
  /\ awaiting = {}
  /\ entry = [e \in ExecIds |-> Entry(None, 0)]
  /\ top_failure = NoFailure
  /\ last_call = Call("init", "", 0, "")
  /\ EventInit
  /\ ExecutorInit
  /\ QueueInit
  /\ RTOff
  /\ BusInit

NextReg ==
  \/ \E a \in AgentIds : Register(a)
  \/ \E a \in AgentIds : Unregister(a)
  \/ \E t \in AgentTypes : GetBest(t)
  \/ \E a \in Workers : Submit(a)
  \/ \E a \in Workers, o \in WfOutcomes, dt \in Elapsed : Finish(a, o, dt)
  \/ \E a \in Workers : ResetAgent(a)

SpecReg == InitReg /\ [][NextReg]_vars

\* a message or a task about to be serialised, next to idle components
InitRT ==
  /\ AgentInit
  /\ RegistryInit
  /\ workflow = <<>>
  /\ executions = [e \in {} |-> WorkflowExecution(EmptyMap)]
  /\ pending_approvals = {}
  /\ run = [e \in ExecIds |-> IdleRun]
  /\ awaiting = {}
  /\ entry = [e \in ExecIds |-> Entry(None, 0)]
  /\ top_failure = NoFailure
  /\ last_call = Call("init", "", 0, "")
  /\ EventInit
  /\ ExecutorInit
  /\ QueueInit
  /\ \/ rt_pc = "msg_object" /\ rt_obj \in Messages
     \/ rt_pc = "task_object" /\ rt_obj \in Tasks
  /\ rt_data = EmptyMap
  /\ rt_copy = EmptyMap
  /\ BusInit

NextRT ==
  \/ MessageToDict
  \/ MessageFromDict
  \/ TaskToDict
  \/ TaskFromDict

SpecRT == InitRT /\ [][NextRT]_vars

\* the registry with one agent that is given tasks, all taking the same
\* time: the index, the id map and the availability of the agents, without
\* the spread of scores
NextDirectory ==
  \/ \E a \in AgentIds : Register(a)
  \/ \E a \in AgentIds : Unregister(a)
  \/ \E t \in AgentTypes : GetBest(t)
  \/ \E a \in Receivers : Submit(a)
  \/ \E a \in Receivers, o \in WfOutcomes, dt \in WfElapsed : Finish(a, o, dt)
  \/ \E a \in Receivers : ResetAgent(a)

SpecDirectory == InitReg /\ [][NextDirectory]_vars

\* an agent constructed with or without a message bus
InitAgent ==
  /\ AgentInit
  /\ RegistryInit
  /\ workflow = <<>>
  /\ executions = [e \in {} |-> WorkflowExecution(EmptyMap)]
  /\ pending_approvals = {}
  /\ run = [e \in ExecIds |-> IdleRun]
  /\ awaiting = {}
  /\ entry = [e \in ExecIds |-> Entry(None, 0)]
  /\ top_failure = NoFailure
  /\ last_call = Call("init", "", 0, "")
  /\ EventInit
  /\ ExecutorInit
  /\ QueueInit
  /\ RTOff
  /\ message_bus \in [AgentIds -> Buses]
  /\ \A a \in AgentIds \ Receivers : message_bus[a] = "memory"
  /\ published = <<>>
  /\ received = <<>>
  /\ handling = [a \in AgentIds |-> 0]
  /\ agent_call = NoCall
  /\ state_before = None
  /\ RouteInit

NextAgent ==
  \/ \E a \in Receivers : ExecuteTask(a)
  \/ /\ Len(received) < MaxRequests
     /\ \E a \in Receivers :
          \E req \in Requests(a, RequestIds[Len(received) + 1]) : ReceiveRequest(a, req)
  \/ \E a \in Receivers, o \in WfOutcomes, dt \in WfElapsed : ProcessTaskDone(a, o, dt)
  \/ \E a \in Receivers : Reset(a)

SpecAgent == InitAgent /\ [][NextAgent]_vars

(***************************************************************************)
(* SpecLifecycle: the agents of a running workflow are also called         *)
(* directly, sent requests, looked up in the registry and reset.           *)
(***************************************************************************)
\* the engine is awaiting process_task of agent a
HeldByEngine(a) ==
  \E e \in ExecIds :
    \/ run[e].pc = "agent" /\ run[e].agent = a
    \/ /\ run[e].pc = "sub"
       /\ \E j \in 1..Len(run[e].subst) :
            run[e].subst[j] = "working" /\ run[e].subag[j] = a

\* workflows whose agent steps all ask for the same type of agent
LifecycleWorkflows ==
  { << create_agent_step(TopId(1), TopName(1), "ba", {}, {}, "skip"),
       create_human_review_step(TopId(2), TopName(2)) >>,
    << create_parallel_step(TopId(1), TopName(1),
         << create_agent_step(SubId(1, 1), SubName(1, 1), "ba", {}, {}, "fail"),
            create_human_review_step(SubId(1, 2), SubName(1, 2)) >>),
       create_agent_step(TopId(2), TopName(2), "ba", {}, {}, "skip") >> }

\* the request a client sends to agent a
LifecycleRequest(a, cid) == create_request("client", a, "analyze", EmptyMap, "NORMAL", cid)

InitLifecycle ==
  /\ AgentInit
  /\ RegistryInit
  /\ workflow \in LifecycleWorkflows
  /\ executions = [e \in {} |-> WorkflowExecution(EmptyMap)]
  /\ pending_approvals = {}
  /\ run = [e \in ExecIds |-> IdleRun]
  /\ awaiting = {}
  /\ entry = [e \in ExecIds |-> Entry(None, 0)]
  /\ top_failure = NoFailure
  /\ last_call = Call("init", "", 0, "")
  /\ EventInit
  /\ ExecutorInit
  /\ QueueInit
  /\ RTOff
  /\ BusInit

NextLifecycle ==
  \/ Next
  \/ \E t \in AgentTypes : GetBest(t)
  \/ \E a \in Receivers : ExecuteTask(a)
  \/ /\ Len(received) < MaxRequests
     /\ \E a \in Receivers :
          ReceiveRequest(a, LifecycleRequest(a, RequestIds[Len(received) + 1]))
  \/ \E a \in Receivers, o \in WfOutcomes, dt \in WfElapsed :
       ~HeldByEngine(a) /\ ProcessTaskDone(a, o, dt)
  \/ \E a \in Receivers : Reset(a)

SpecLifecycle == InitLifecycle /\ [][NextLifecycle]_vars

(***************************************************************************)
(* SpecPublish: agents on a RedisMessageBus, whose publish serializes the  *)
(* message and sends it to the server, and raises when either fails.       *)
(***************************************************************************)
InitPublish ==
  /\ AgentInit
  /\ RegistryInit
  /\ workflow = <<>>
  /\ executions = [e \in {} |-> WorkflowExecution(EmptyMap)]
  /\ pending_approvals = {}
  /\ run = [e \in ExecIds |-> IdleRun]
  /\ awaiting = {}
  /\ entry = [e \in ExecIds |-> Entry(None, 0)]
  /\ top_failure = NoFailure
  /\ last_call = Call("init", "", 0, "")
  /\ EventInit
  /\ ExecutorInit
  /\ QueueInit
  /\ RTOff
  /\ message_bus \in [AgentIds -> {"memory", "redis"}]
  /\ \A a \in AgentIds \ Receivers : message_bus[a] = "memory"
  /\ published = <<>>
  /\ received = <<>>
  /\ handling = [a \in AgentIds |-> 0]
  /\ agent_call = NoCall
  /\ state_before = None
  /\ RouteInit

\* the ways execute_task can end on the bus of agent a: only the publish of
\* a RedisMessageBus raises (message_bus.py 385-389)
PublishOutcomes(a) == IF message_bus[a] = "redis" THEN Outcomes ELSE WfOutcomes

NextPublish ==
  \/ \E a \in Receivers : ExecuteTask(a)
  \/ /\ Len(received) < MaxRequests
     /\ \E a \in Receivers :
          \E req \in Requests(a, RequestIds[Len(received) + 1]) : ReceiveRequest(a, req)
  \/ \E a \in Receivers, dt \in WfElapsed :
       \E o \in PublishOutcomes(a) : ProcessTaskDone(a, o, dt)
  \/ \E a \in Receivers : Reset(a)

SpecPublish == InitPublish /\ [][NextPublish]_vars

(***************************************************************************)
(* SpecShutdown: the agents are shut down while the engine and direct      *)
(* callers go on using the registry and the agents.                        *)
(***************************************************************************)
MaxProcessing == 2   \* execute_task calls in progress on one agent

\* the execute_task calls on agent a that the engine is awaiting
EngineCalls(a) ==
  Cardinality({e \in ExecIds : run[e].pc = "agent" /\ run[e].agent = a})
  + Cardinality({ <<e, j>> \in ExecIds \X (1..3) :
                    /\ run[e].pc = "sub"
                    /\ j <= Len(run[e].subst)
                    /\ run[e].subst[j] = "working"
                    /\ run[e].subag[j] = a })

\* AgentFactory.shutdown_all: every agent is reset and its direct handler
\* is removed from the bus; the registry keeps the agents
shutdown_all ==
  /\ agent_state' = [a \in AgentIds |-> "idle"]
  /\ current_task' = [a \in AgentIds |-> NoTask]
  /\ state_changes' = NoChanges
  /\ direct_handlers' = direct_handlers \ AgentIds
  /\ UNCHANGED <<agent_metrics, task_history, state_change_callbacks, processing>>

\* AgenticSystem.shutdown
ShutdownAll ==
  /\ shutdown_all
  /\ UNCHANGED <<bus_running, bus_queue, sub_order, loops, deliveries, routed, named>>
  /\ UNCHANGED <<message_bus, published, received, handling, agent_call, state_before>>
  /\ UNCHANGED <<regVars, wfVars, queueVars, trackerVars, rtVars, execVars>>

NextShutdown ==
  \/ Next
  \/ \E a \in Receivers : processing[a] < MaxProcessing /\ ExecuteTask(a)
  \/ \E a \in Receivers, o \in WfOutcomes, dt \in WfElapsed :
       processing[a] > EngineCalls(a) /\ ProcessTaskDone(a, o, dt)
  \/ ShutdownAll

SpecShutdown == InitLifecycle /\ [][NextShutdown]_vars

\* agents on which callbacks are registered while they take tasks
NextCallbacks ==
  \/ \E a \in Receivers : ExecuteTask(a)
  \/ \E a \in Receivers, o \in WfOutcomes, dt \in WfElapsed : ProcessTaskDone(a, o, dt)
  \/ \E a \in Receivers : Reset(a)
  \/ \E a \in Receivers, kind \in CallbackKinds : RegisterStateCallback(a, kind)

SpecCallbacks == InitAgent /\ [][NextCallbacks]_vars

\* an executor just constructed, next to an idle system
InitReview ==
  /\ AgentInit
  /\ RegistryInit
  /\ workflow = <<>>
  /\ executions = [e \in {} |-> WorkflowExecution(EmptyMap)]
  /\ pending_approvals = {}
  /\ run = [e \in ExecIds |-> IdleRun]
  /\ awaiting = {}
  /\ entry = [e \in ExecIds |-> Entry(None, 0)]
  /\ top_failure = NoFailure
  /\ last_call = Call("init", "", 0, "")
  /\ EventInit
  /\ ExecutorInit
  /\ QueueInit
  /\ RTOff
  /\ BusInit

\* the statuses and feedback texts a reviewer sends, and the review types
\* asked for: the six stages and one that is not a stage
ReviewStatuses == {"approved", "feedback"}
Feedbacks      == {None, "fb"}
ReviewTypeArgs == Range(ReviewTypes) \cup {"PROJECT_INITILIZATION"}

NextReview ==
  \/ \E t \in TaskIds, o_init \in StageOutcomes, o_project \in StageOutcomes :
       start_workflow(t, o_init, o_project)
  \/ \E t \in TaskIds, status \in ReviewStatuses, feedback \in Feedbacks,
        review_type \in ReviewTypeArgs, o_init \in StageOutcomes,
        o_stage \in StageOutcomes, o_task \in TaskOutcomes :
       graph_review_flow(t, status, feedback, review_type, o_init, o_stage, o_task)

SpecReview == InitReview /\ [][NextReview]_vars

(***************************************************************************)
(* SpecBus: one InMemoryMessageBus with its clients: start and stop,       *)
(* publishers, subscribers joining, and the consumer loops.                *)
(***************************************************************************)
InitBus ==
  /\ AgentInit
  /\ RegistryInit
  /\ workflow = <<>>
  /\ executions = [e \in {} |-> WorkflowExecution(EmptyMap)]
  /\ pending_approvals = {}
  /\ run = [e \in ExecIds |-> IdleRun]
  /\ awaiting = {}
  /\ entry = [e \in ExecIds |-> Entry(None, 0)]
  /\ top_failure = NoFailure
  /\ last_call = Call("init", "", 0, "")
  /\ EventInit
  /\ ExecutorInit
  /\ QueueInit
  /\ RTOff
  /\ BusInit

HandlerOutcomes == {"ok", "raised"}

LoopNext(L) ==
  \/ LoopCheck(L)
  \/ LoopGetTimeout(L)
  \/ LoopGet(L)
  \/ RouteStep(L)
  \/ \E o \in HandlerOutcomes : HandlerEnd(L, o)

NextBus ==
  \/ Start
  \/ Stop
  \/ \E m \in BusMessages : Publish(m)
  \/ /\ Len(sub_order) < Len(SubIds)
     /\ Subscribe(SubIds[Len(sub_order) + 1])
  \/ \E id \in DirectIds : RegisterDirect(id)
  \/ \E L \in 1..MaxLoops : LoopNext(L)

SpecBus == InitBus /\ [][NextBus]_vars

\* the event loop runs every task that is ready: a consumer loop that can
\* take a step takes it, and an awaited handler returns or raises
LoopFairness ==
  \A L \in 1..MaxLoops :
    /\ WF_vars(LoopCheck(L))
    /\ WF_vars(LoopGet(L))
    /\ WF_vars(RouteStep(L))
    /\ WF_vars(\E o \in HandlerOutcomes : HandlerEnd(L, o))

\* SpecBusLive: the bus under a fair event loop, with the clients that
\* publish broadcasts and the first two subscribers
LiveMessages == {create_broadcast("x", "e", EmptyMap)}
LiveSubIds   == <<"s1", "s2">>

NextBusLive ==
  \/ Start
  \/ Stop
  \/ \E m \in LiveMessages : Publish(m)
  \/ /\ Len(sub_order) < Len(LiveSubIds)
     /\ Subscribe(LiveSubIds[Len(sub_order) + 1])
  \/ \E L \in 1..MaxLoops : LoopNext(L)

SpecBusLive == InitBus /\ [][NextBusLive]_vars /\ LoopFairness

NextQueue ==
  \/ \E c \in TaskChoices(Cardinality(Tracked) + 1), tick \in Ticks(Cardinality(Tracked) + 1) :
       EnqueueNew(c[1], c[2], c[3], tick)
  \/ \E id \in 1..MaxEnqueue : EnqueueAgain(id)
  \/ \E t \in QueueTypes : dequeue(t)
  \/ \E id \in 1..MaxEnqueue, st \in UpdateStatuses : update_task(id, st)
  \/ \E id \in 1..MaxEnqueue : retry_task(id)
  \/ \E id \in 1..MaxEnqueue : cancel_task(id)
  \/ \E id \in 1..MaxEnqueue, d \in 1..MaxEnqueue : add_dependency(id, d)
  \/ \E id \in 1..MaxEnqueue : mark_completed(id)

SpecQueue == InitQueue /\ [][NextQueue]_vars

\* the tasks of the queue when only their life cycle matters: one priority,
\* assigned to an agent (so that they enter both queues), created at the
\* same instant
RetryChoices == {<<"NORMAL", "ba-1", <<>> >>}

\* the queue without the dependency tracker
NextRetry ==
  \/ \E c \in RetryChoices : EnqueueNew(c[1], c[2], c[3], 0)
  \/ \E id \in 1..MaxEnqueue : EnqueueAgain(id)
  \/ \E t \in QueueTypes : dequeue(t)
  \/ \E id \in 1..MaxEnqueue, st \in UpdateStatuses : update_task(id, st)
  \/ \E id \in 1..MaxEnqueue : retry_task(id)
  \/ \E id \in 1..MaxEnqueue : cancel_task(id)

SpecRetry == InitQueue /\ [][NextRetry]_vars

\* the statuses of the tasks handed to update_task when a worker may also
\* hand back a task it has not marked: dequeue leaves the status at pending
RequeueStatuses == UpdateStatuses \cup {"pending"}

\* the queue with workers that update tasks they have not marked
NextRequeue ==
  \/ \E c \in RetryChoices : EnqueueNew(c[1], c[2], c[3], 0)
  \/ \E id \in 1..MaxEnqueue : EnqueueAgain(id)
  \/ \E t \in QueueTypes : dequeue(t)
  \/ \E id \in 1..MaxEnqueue, st \in RequeueStatuses : update_task(id, st)
  \/ \E id \in 1..MaxEnqueue : retry_task(id)
  \/ \E id \in 1..MaxEnqueue : cancel_task(id)

SpecRequeue == InitQueue /\ [][NextRequeue]_vars

(***************************************************************************)
(* Properties of the workflow engine (checked under Spec).                 *)
(***************************************************************************)
\* the step is a human_review step or holds one among its sub-steps
ContainsReview(step) ==
  \/ step.step_type = "human_review"
  \/ \E j \in 1..Len(step.sub_steps) : step.sub_steps[j].step_type = "human_review"

Returned_(e) == run[e].pc = "idle"

\* C1: approve_step on an execution waiting at index i records an approval
\* marker in step_results, leaves the index at i+1 and the status running
\* and resumes the step loop; when the call has returned the execution is
\* completed, failed, or waiting_approval at a later step holding a review.
C1_ApproveAdvances ==
  \A e \in DOMAIN executions :
    entry[e].op = "approve_step" =>
      LET ex == executions[e]
          i  == entry[e].from
      IN /\ ApprovalKey(i) \in DOMAIN ex.step_results
         /\ ex.step_results[ApprovalKey(i)].tag = "approved"
         /\ last_call = Call("approve_step", e, 0, "") =>
               /\ ex.current_step_index = i + 1
               /\ ex.status = "running"
               /\ run[e].pc = "loop"
               /\ e \notin pending_approvals
         /\ Returned_(e) =>
               /\ ex.status \in {"completed", "failed", "waiting_approval"}
               /\ ex.status = "waiting_approval" =>
                     /\ ex.current_step_index > i
                     /\ ex.current_step_index < Len(workflow)
                     /\ ContainsReview(CurrentStep(e))
                     /\ e \in pending_approvals

\* an approved execution that ran on and paused again at a later review
C1_Witness ==
  \E e \in DOMAIN executions :
    /\ entry[e].op = "approve_step"
    /\ Returned_(e)
    /\ executions[e].status = "waiting_approval"
    /\ executions[e].current_step_index > entry[e].from

\* C2: reject_step on an execution waiting at index i writes
\* {name}_feedback = feedback and {name}_review_status = rejected into the
\* context (name: the step at index i), leaves the index at i-1 (0 when
\* i = 0) and resumes from there: the first step begun after the call is
\* the one at that index, and it has begun when the call has returned.
C2_RejectRewinds ==
  \A e \in DOMAIN executions :
    entry[e].op = "reject_step" =>
      LET ex   == executions[e]
          i    == entry[e].from
          name == workflow[i + 1].name
          back == IF i = 0 THEN 0 ELSE i - 1
      IN /\ ApprovalKey(i) \in DOMAIN ex.step_results
         /\ ex.step_results[ApprovalKey(i)].tag = "rejected"
         /\ FeedbackKey(name) \in DOMAIN ex.context
         /\ ex.context[FeedbackKey(name)] = ex.step_results[ApprovalKey(i)].val
         /\ ex.context[FeedbackKey(name)] \in {a[1] : a \in RejectArgs}
         /\ ReviewStatusKey(name) \in DOMAIN ex.context
         /\ ex.context[ReviewStatusKey(name)] = "rejected"
         /\ last_call = Call("reject_step", e, 0, "") =>
               /\ ex.current_step_index = back
               /\ ex.status = "running"
               /\ run[e].pc = "loop"
         /\ entry[e].ran # <<>> => Head(entry[e].ran) = back
         /\ Returned_(e) => entry[e].ran # <<>>

\* a rejection at an index above 0 after which the producing step ran again
\* and the execution paused at the review once more
C2_Witness ==
  \E e \in DOMAIN executions :
    /\ entry[e].op = "reject_step"
    /\ entry[e].from > 0
    /\ Len(entry[e].ran) >= 2
    /\ Returned_(e)
    /\ executions[e].status = "waiting_approval"

NoTaskFailed == \A a \in AgentIds : agent_metrics[a].tasks_failed = 0

\* C3: for the workflow [agent_task, human_review, agent_task] with its
\* agents registered, available and succeeding, execute_workflow stops with
\* status waiting_approval at index 1, and a following approve_step ends
\* with status completed, index 3 and both agent results in step_results.
C3_EndToEnd ==
  \A e \in DOMAIN executions :
    (workflow = EndToEnd /\ NoTaskFailed /\ Returned_(e)) =>
      LET ex == executions[e]
      IN /\ entry[e].op = "execute_workflow" =>
               /\ ex.status = "waiting_approval"
               /\ ex.current_step_index = 1
               /\ e \in pending_approvals
         /\ entry[e].op = "approve_step" =>
               /\ ex.status = "completed"
               /\ ex.current_step_index = 3
               /\ ex.current_step_index = Len(workflow)
               /\ \A i \in {1, 3} :
                     /\ StepKey(TopId(i)) \in DOMAIN ex.step_results
                     /\ ex.step_results[StepKey(TopId(i))].tag = "result"

\* the scenario driven to its end by an approval
C3_Witness ==
  \E e \in DOMAIN executions :
    /\ workflow = EndToEnd
    /\ NoTaskFailed
    /\ entry[e].op = "approve_step"
    /\ Returned_(e)
    /\ executions[e].status = "completed"
    /\ executions[e].current_step_index = 3

\* C9: approve_step and reject_step called for an execution id with no
\* pending approval (unknown, running, completed, failed, or already
\* approved / rejected) fail with an error and change nothing of the
\* execution: status, index, context and step_results stay as they were.
C9_NoPendingApproval ==
  [][\A e \in ExecIds :
       (/\ e \notin pending_approvals
        /\ last_call'.op \in {"approve_step", "reject_step"}
        /\ last_call'.eid = e)
       => /\ last_call'.err = "NoPendingApproval"
          /\ executions' = executions
          /\ pending_approvals' = pending_approvals]_vars

\* a rejection refused on an execution that was approved and has completed
C9_Witness ==
  /\ last_call = Call("reject_step", "e1", 0, "NoPendingApproval")
  /\ "e1" \in DOMAIN executions
  /\ executions["e1"].status = "completed"
  /\ entry["e1"].op = "approve_step"

\* C10: no step placed after a human_review step, at the top level or among
\* the sub-steps of the same conditional or parallel step, begins to execute
\* while that review is still waiting for its approval.
C10_NoStepPastPendingReview ==
  last_call.op = "step" => \A r \in awaiting : last_call.step <= r

\* C7: an agent is available exactly when its state is idle or completed.
C7_Availability ==
  \A a \in AgentIds :
    /\ agent_state[a] \in AgentState
    /\ agent_state[a] \in {"idle", "completed"} => is_available(a)
    /\ agent_state[a] \in AgentState \ {"idle", "completed"} => ~is_available(a)

\* one agent failed and is unavailable while another completed and is available
C7_Witness ==
  \E a \in AgentIds, b \in AgentIds :
    /\ agent_state[a] = "error" /\ ~is_available(a)
    /\ agent_state[b] = "completed" /\ is_available(b)

\* the top-level step that ran last raised under on_failure = skip: its
\* result is {skipped, error} and the loop stands before the next step
SkipContinues(e) ==
  (top_failure.eid = e /\ top_failure.policy = "skip") =>
    LET ex   == executions[e]
        i    == top_failure.index
        step == workflow[i + 1]
    IN /\ StepKey(step.step_id) \in DOMAIN ex.step_results
       /\ ex.step_results[StepKey(step.step_id)] = SkippedResult(top_failure.err)
       /\ ex.status = "running"
       /\ ex.current_step_index = i + 1
       /\ run[e].pc = "loop"

\* the top-level step that ran last raised under on_failure = fail: the
\* execution is failed with the failure text, at the index of that step
FailStops(e) ==
  (top_failure.eid = e /\ top_failure.policy = "fail") =>
    LET ex == executions[e]
    IN /\ ex.status = "failed"
       /\ ex.error = top_failure.err
       /\ ex.current_step_index = top_failure.index
       /\ run[e].pc = "idle"
       /\ e \notin pending_approvals

\* C11: when a top-level step raises, on_failure = skip records the result
\* {skipped, error} and the execution goes on to the next step with status
\* running; on_failure = fail leaves the execution failed with the failure
\* text as error, at the index of the failed step, and no step runs after.
C11_FailurePolicy ==
  [][\A e \in ExecIds :
       /\ SkipContinues(e)'
       /\ FailStops(e)'
       /\ (top_failure.eid = e /\ top_failure.policy = "fail") =>
            /\ last_call'.op \notin {"step", "enter", "finish", "complete"}
            /\ executions' = executions
            /\ run' = run]_vars

Terminal == {"completed", "failed", "cancelled"}

\* C12: an execution whose status is completed, failed or cancelled keeps
\* that status in every later step of the engine.
C12_TerminalStatus ==
  [][\A e \in DOMAIN executions :
       executions[e].status \in Terminal =>
         executions'[e].status = executions[e].status]_vars

(***************************************************************************)
(* Properties of the registry (checked under SpecReg).                     *)
(***************************************************************************)
\* position of a registered agent in the order of the standing registrations
RegIndex(a) == CHOOSE k \in 1..Len(reg_order) : reg_order[k] = a

\* C6: get_best_agent(type) returns None when no registered agent of the
\* type is available, and otherwise a registered, available agent of the
\* type whose score is minimal; among the agents of minimal score it is the
\* one registered earliest.
C6_BestAgent ==
  best.type # None =>
    LET cands == {a \in agents : agent_type(a) = best.type /\ is_available(a)}
    IN IF cands = {} THEN best.result = None
       ELSE /\ best.result \in cands
            /\ \A b \in cands :
                 /\ ~ScoreLess(score_agent(b), score_agent(best.result))
                 /\ ~ScoreLess(score_agent(best.result), score_agent(b))
                      => RegIndex(best.result) <= RegIndex(b)

(***************************************************************************)
(* Properties of the task queue (checked under SpecQueue).                 *)
(***************************************************************************)
\* every enqueue call so far handed over a newly created task
EnqueuedOnce == queue_metrics.total_enqueued = Cardinality(Tracked)

\* C4: when each task was enqueued once, the tasks returned by the repeated
\* dequeue calls that follow the enqueue calls come in non-decreasing
\* priority number and, among tasks of equal priority, in creation order
\* (task ids count the creations).
C4_PriorityThenCreationOrder ==
  \A k \in 1..Len(served), l \in 1..Len(served) :
    (EnqueuedOnce /\ k < l) =>
      LET a == tasks[served[k]]
          b == tasks[served[l]]
      IN /\ MessagePriority[a.priority] <= MessagePriority[b.priority]
         /\ a.priority = b.priority => served[k] < served[l]

\* C5: a task with a dependency that is not completed is not returned by
\* dequeue, and a task whose registered dependency is not marked completed
\* is not among the result of get_ready_tasks.
C5_DependencyGating ==
  /\ \A k \in 1..Len(served) :
       \A d \in Range(tasks[served[k]].dependencies) :
         d \in Tracked /\ tasks[d].status = "completed"
  /\ \A t \in get_ready_tasks(pending_tasks) :
       \A d \in Range(TrackerDeps(t)) : d \in tracker_completed

(***************************************************************************)
(* Properties of the dictionary forms (checked under SpecRT).              *)
(***************************************************************************)
\* C8: from_dict(to_dict(x)) equals x in every field, for messages and for
\* tasks; the correlation id and the task id of the copy are those of x.
C8_RoundTrip ==
  /\ rt_pc = "msg_copy" =>
       /\ rt_copy = rt_obj
       /\ \A f \in DOMAIN rt_obj : f \in DOMAIN rt_copy /\ rt_copy[f] = rt_obj[f]
       /\ rt_copy.correlation_id = rt_obj.correlation_id
  /\ rt_pc = "task_copy" =>
       /\ rt_copy = rt_obj
       /\ \A f \in DOMAIN rt_obj : f \in DOMAIN rt_copy /\ rt_copy[f] = rt_obj[f]
       /\ rt_copy.task_id = rt_obj.task_id

\* a message with a parent, microseconds in its timestamp and a priority
\* other than the default went through the round trip
C8_Witness ==
  /\ rt_pc = "msg_copy"
  /\ rt_obj.priority = "CRITICAL"
  /\ rt_obj.parent_id # None
  /\ rt_obj.timestamp.us # 0
  /\ rt_obj.correlation_id # FreshUuid


(***************************************************************************)
(* Properties of the agents (checked under SpecAgent).                     *)
(***************************************************************************)
\* C13: execute_task on an agent whose state is working, reviewing, blocked,
\* error or paused fails with the agent-unavailable error and leaves the
\* agent's state, metrics, current task and task history and the status of
\* the task as they were.
C13_UnavailableRejected ==
  [][\A a \in AgentIds :
       (/\ agent_state[a] \in AgentState \ {"idle", "completed"}
        /\ agent_call'.op = "execute_task"
        /\ agent_call'.agent = a)
       => /\ agent_call'.err = "AgentUnavailable"
          /\ agent_call'.task_status = "pending"
          /\ agent_state'[a] = agent_state[a]
          /\ agent_metrics'[a] = agent_metrics[a]
          /\ current_task'[a] = current_task[a]
          /\ task_history'[a] = task_history[a]]_vars

\* a call refused by an agent that is working on another task
C13_Witness ==
  \E a \in AgentIds :
    /\ agent_call = AgentCall("execute_task", a, "AgentUnavailable", "pending")
    /\ agent_state[a] = "working"
    /\ current_task[a] # NoTask

\* the task_failed broadcasts of agent a in a log of published messages
TaskFailedCount(log, a) ==
  Cardinality({k \in 1..Len(log) :
                 /\ log[k].message_type = "BROADCAST"
                 /\ log[k].recipient = "BROADCAST"
                 /\ log[k].sender = a
                 /\ log[k].payload.event = "task_failed"})

\* what execute_task does with its task and its agent when process_task raised
FailureRecorded(a) ==
  /\ agent_call'.task_status = "failed"
  /\ agent_call'.err = "task_failed"
  /\ agent_metrics'[a].tasks_failed = agent_metrics[a].tasks_failed + 1
  /\ agent_metrics'[a].tasks_completed = agent_metrics[a].tasks_completed
  /\ agent_state'[a] = "error"

\* process_task of agent a raised in this step
ProcessTaskRaised(a) ==
  /\ agent_state[a] = "working"
  /\ agent_call'.op = "process_task"
  /\ agent_call'.agent = a
  /\ agent_call'.err # ""

TaskTransitions ==
  {<<"idle", "working">>, <<"working", "completed">>,
   <<"working", "blocked">>, <<"working", "error">>}

\* the transitions execute_task makes: those of the state machine except
\* working -> blocked (_check_dependencies always succeeds), and
\* completed -> working, a completed agent being available
ExecuteTransitions ==
  {<<"idle", "working">>, <<"completed", "working">>,
   <<"working", "completed">>, <<"working", "error">>}

Replies(a, req) ==
  {j \in 1..Len(published) :
     /\ published[j].sender = a
     /\ published[j].correlation_id = req.correlation_id}

\* message r answers request req as _handle_request does after a task that
\* succeeded (ok) or did not
IsReply(r, req, ok) ==
  /\ r.recipient = req.sender
  /\ r.sender = req.recipient
  /\ r.correlation_id = req.correlation_id
  /\ IF ok
       THEN /\ r.message_type = "RESPONSE"
            /\ r.payload = [status |-> "success", result |-> TaskResult(req.recipient)]
       ELSE /\ r.message_type = "ERROR"
            /\ r.payload.original_payload = req.payload
            /\ r.parent_id = req.correlation_id

AvailableOfType(t) ==
  {a \in agents : agent_type(a) = t /\ is_available(a)}

\* C17: whatever registrations, unregistrations and state changes came
\* before it, a get_best(type) call returns None exactly when no registered
\* agent of the type is available, and otherwise an agent that is
\* registered, of the type and available at the call.
C17_GetBest ==
  best.type # None
  => /\ best.result = None <=> AvailableOfType(best.type) = {}
     /\ best.result # None => best.result \in AvailableOfType(best.type)

\* get_best answered with a registered agent that had finished a task, while
\* the type index still listed an agent that had been unregistered
C17_Witness ==
  /\ best.type = "ba"
  /\ best.result \in agents
  /\ agent_state[best.result] = "completed"
  /\ \E k \in 1..Len(TypeIds("ba")) : TypeIds("ba")[k] \notin agents

\* how often id a is listed under type t
Listed(t, a) == Cardinality({k \in 1..Len(TypeIds(t)) : TypeIds(t)[k] = a})

\* C18: after any registrations and unregistrations, the same id registered
\* twice included, every id listed under a type is a registered agent of
\* that type, every registered agent is listed exactly once under its type,
\* no type has an empty index entry or an entry without registered agents,
\* and get_by_type returns no unregistered id.
C18_IndexAgrees ==
  /\ \A t \in DOMAIN agent_types :
       /\ agent_types[t] # <<>>
       /\ \E a \in agents : agent_type(a) = t
       /\ \A k \in 1..Len(agent_types[t]) :
            agent_types[t][k] \in agents /\ agent_type(agent_types[t][k]) = t
  /\ \A a \in agents : Listed(agent_type(a), a) = 1
  /\ \A t \in AgentTypes :
       \A k \in 1..Len(get_agents_by_type(t)) : get_agents_by_type(t)[k] \in agents

(***************************************************************************)
(* Further properties of the task queue (checked under SpecQueue).         *)
(***************************************************************************)
\* the buckets a task id is a member of
BucketsOf(id) ==
  {b \in {"pending", "running", "completed", "failed"} :
     \/ b = "pending" /\ id \in pending_tasks
     \/ b = "running" /\ id \in running_tasks
     \/ b = "completed" /\ id \in completed_tasks
     \/ b = "failed" /\ id \in failed_tasks}

\* C19: after any enqueue, dequeue, update, retry and cancel calls, enqueue
\* of an id the queue already tracks included, every task id is in at most
\* one of the pending, running, completed and failed buckets.
C19_BucketsDisjoint ==
  \A id \in Tracked : Cardinality(BucketsOf(id)) <= 1

\* a retry_task(id) call was made in this step
RetryCalled(id) ==
  /\ last_q'.op = "retry_task"
  /\ last_q'.id = id
  /\ UNCHANGED trackerVars

\* task id is pending and has an item in the main queue, so that the
\* unfiltered dequeue calls come to return it
Requeued(id) ==
  /\ id \in pending_tasks'
  /\ \E k \in 1..Len(queue') : queue'[k].task = id

\* C20: retry_task(id) returns true exactly for a task in the failed bucket;
\* it then takes the task out of failed, sets its status to pending, clears
\* result, started_at and completed_at and enqueues it again. For every
\* other id (unknown, pending, running, completed, cancelled) it returns
\* false and leaves the queues, buckets, task fields and counters alone.
C20_Retry ==
  [][\A id \in 1..MaxEnqueue :
       RetryCalled(id)
       => IF id \in failed_tasks
            THEN /\ last_q'.ok
                 /\ id \notin failed_tasks'
                 /\ tasks'[id] = [tasks[id] EXCEPT !.status = "pending", !.result = None,
                                                  !.started_at = None,
                                                  !.completed_at = None]
                 /\ Requeued(id)
                 /\ queue_metrics' = [queue_metrics EXCEPT !.total_enqueued = @ + 1]
            ELSE /\ ~last_q'.ok
                 /\ UNCHANGED <<queue, type_queues, tasks, pending_tasks,
                                running_tasks, completed_tasks, failed_tasks,
                                queue_metrics>>]_vars

\* a failed task, with its result and timestamps set by the worker, was
\* retried and is pending again with them cleared
C20_Witness ==
  /\ last_q.op = "retry_task"
  /\ last_q.ok
  /\ last_q.id \in pending_tasks
  /\ last_q.id \notin failed_tasks
  /\ tasks[last_q.id].status = "pending"
  /\ tasks[last_q.id].result = None
  /\ queue_metrics.total_failed >= 1

\* a cancel_task(id) call was made in this step
CancelCalled(id) ==
  /\ last_q'.op = "cancel_task"
  /\ last_q'.id = id
  /\ UNCHANGED trackerVars

\* a dequeue call returned task id in this step: the task moved from the
\* pending to the running bucket
Dequeued(id) ==
  /\ id \in pending_tasks
  /\ id \notin pending_tasks'
  /\ id \in running_tasks'

\* C21: cancel_task(id) returns true exactly for a task in the pending
\* bucket; the task then has status cancelled and is in none of the four
\* buckets; a task whose status is and stays cancelled is returned by no
\* dequeue call; for a task that is not pending the call returns false and
\* changes nothing.
C21_Cancel ==
  [][\A id \in 1..MaxEnqueue :
       /\ CancelCalled(id)
            => IF id \in pending_tasks
                 THEN /\ last_q'.ok
                      /\ tasks'[id].status = "cancelled"
                      /\ id \notin pending_tasks' \cup running_tasks'
                                   \cup completed_tasks' \cup failed_tasks'
                 ELSE /\ ~last_q'.ok
                      /\ UNCHANGED <<queue, type_queues, tasks, pending_tasks,
                                     running_tasks, completed_tasks, failed_tasks,
                                     queue_metrics>>
       /\ (/\ id \in Tracked
           /\ tasks[id].status = "cancelled"
           /\ tasks'[id].status = "cancelled")
            => ~Dequeued(id)]_vars

\* a handler invocation for message k starts, or ends, in this step
HandlerStarts(k) == Len(deliveries'[k]) > Len(deliveries[k])
HandlerEnds(k) ==
  \E L \in 1..MaxLoops :
    loops[L].pc = "in_handler" /\ loops[L].msg = k /\ loops'[L].pc # "in_handler"

\* C22: delivery preserves the publish order of a bus: every handler
\* invocation for an earlier published message starts and finishes before
\* any handler invocation for a later published message starts, i.e. no
\* invocation for message k starts or ends once one for a later message
\* has started.
C22_PublishOrder ==
  [][\A k \in DOMAIN deliveries :
       (HandlerStarts(k) \/ HandlerEnds(k)) =>
         \A j \in DOMAIN deliveries : j > k => deliveries[j] = <<>>]_vars

\* the _process_messages tasks that have not ended
ActiveLoops == {L \in 1..MaxLoops : loops[L].pc # "off"}

\* C23: under any sequence of start and stop calls at most one consumer
\* loop is active at any time.
C23_SingleLoop == Cardinality(ActiveLoops) <= 1

\* _route_message for the message of loop L ends in this step, by its
\* return or by an exception
RouteEnds(L) == loops[L].pc = "route" /\ loops'[L].pc = "check"
\* the handlers called for message k
Called(log) == {log[i].handler : i \in DOMAIN log}

\* C24: a routed message is delivered to exactly the handlers the routing
\* rule names, once each, whether or not a handler raises: when the routing
\* of a message ends, every handler the rule named when it began has been
\* called, no handler has been called that the rule does not name, and none
\* twice.
C24_RoutingRule ==
  [][\A L \in 1..MaxLoops :
       RouteEnds(L) =>
         LET k   == loops[L].msg
             log == deliveries'[k]
         IN /\ named'[k] \subseteq Called(log)
            /\ Called(log) \subseteq RoutingRule(published[k], sub_order', direct_handlers')
            /\ \A i, j \in DOMAIN log : log[i].handler = log[j].handler => i = j]_vars

\* message k has been taken from the queue and handed to _route_message once
Routed(k) == k \in DOMAIN routed /\ routed[k] = 1

InParallel(e) ==
  /\ e \in DOMAIN executions
  /\ run[e].pc = "sub"
  /\ CurrentStep(e).step_type = "parallel"
\* the sub-steps of the parallel step that have not finished
Unfinished(e) == {k \in 1..Len(run[e].subst) : run[e].subst[k] # "done"}
\* the result the parallel step has stored holds the error of a sub-step
\* whose _execute_step raised
SubStepFailed(ex, step) ==
  LET key == StepKey(step.step_id)
  IN /\ key \in DOMAIN ex.step_results
     /\ \E k \in DOMAIN ex.step_results[key].sub : ex.step_results[key].sub[k].tag = "error"

\* C26: a parallel step completes only after every sub-step has finished,
\* no step after it starts before that join, and the join is all-or-error:
\* while sub-steps are unfinished the execution stays at the parallel step
\* and no other step is started; the step ends with the end of its last
\* unfinished sub-step; and when a sub-step has failed the step ends with
\* the execution failed.
C26_ParallelJoin ==
  [][\A e \in ExecIds :
       InParallel(e) =>
         /\ run'[e].pc = "sub" =>
              /\ executions'[e].current_step_index = executions[e].current_step_index
              /\ entry'[e].ran = entry[e].ran
         /\ run'[e].pc # "sub" =>
              /\ Cardinality(Unfinished(e)) = 1
              /\ SubStepFailed(executions'[e], CurrentStep(e)) =>
                   executions'[e].status = "failed"]_vars

\* the calls _emit_event owes an event: every registered handler, in order
AllHandlers(name) == [i \in 1..Len(event_handlers[name]) |-> <<name, i>>]
RECURSIVE WholeEvents(_)
\* the calls are those of whole events: each event's handlers all called
WholeEvents(calls) ==
  \/ calls = <<>>
  \/ LET n == Len(event_handlers[calls[1][1]])
     IN /\ n <= Len(calls)
        /\ SubSeq(calls, 1, n) = AllHandlers(calls[1][1])
        /\ WholeEvents(SubSeq(calls, n + 1, Len(calls)))

\* C27: an exception raised by an event handler never fails the workflow,
\* and the remaining handlers of the event are still called: whenever the
\* engine emits events, every handler of each emitted event is called, no
\* exception of a handler reaches the engine, and no execution or engine
\* step ever ends with the error of a handler.
C27_HandlersIsolated ==
  [][/\ emitted' # emitted =>
          /\ WholeEvents(emitted'.calls)
          /\ ~emitted'.escaped
     /\ last_call'.err # "handler_error"
     /\ \A e \in DOMAIN executions' : executions'[e].error # "handler_error"]_vars

\* a workflow has completed although the first handler of workflow_completed
\* raised, and the handler registered after it was called as well
C27_Witness ==
  /\ "e1" \in DOMAIN executions
  /\ executions["e1"].status = "completed"
  /\ event_handlers["workflow_completed"] = <<"raises", "ok">>
  /\ emitted.calls = << <<"workflow_completed", 1>>, <<"workflow_completed", 2>> >>

RECURSIVE WholeChanges(_)
\* the calls are whole runs over the callbacks of an agent: for each state
\* set, every registered callback in registration order
WholeChanges(calls) ==
  IF calls = <<>> THEN TRUE
  ELSE LET a == calls[1][1]
           n == Len(state_change_callbacks[a])
       IN /\ Len(calls) >= n
          /\ \A i \in 1..n : calls[i] = <<a, calls[1][2], i>>
          /\ WholeChanges(SubSeq(calls, n + 1, Len(calls)))

\* C28: an exception raised by a state-change callback of an agent is
\* swallowed.  Whenever execute_task moves an agent to another state, the new
\* state is in place, every registered callback has been invoked for every
\* state set on the way (the last of them for the state the agent is now in),
\* no exception has left the setter, the caller of execute_task does not see
\* the callback's error, and a task whose process_task returned is reported
\* completed.
C28_CallbacksIsolated ==
  [][\A a \in AgentIds :
       (agent_state'[a] # agent_state[a] /\ agent_state'[a] # "idle")
       => LET calls == state_changes'.calls
              n     == Len(state_change_callbacks[a])
          IN /\ ~state_changes'.escaped
             /\ WholeChanges(calls)
             /\ Len(calls) >= n
             /\ n > 0 => calls[Len(calls)] = <<a, agent_state'[a], n>>
             /\ agent_call'.err # "callback_error"
             /\ agent_call'.agent = a
             /\ agent_state'[a] = "completed"
                  => agent_call' = AgentCall("process_task", a, "", "completed")]_vars

\* a task has completed on an agent whose first callback raises: both
\* callbacks were called for the change to completed
C28_Witness ==
  /\ state_change_callbacks["ba-1"] = <<"raises", "ok">>
  /\ agent_state["ba-1"] = "completed"
  /\ state_changes.calls = << <<"ba-1", "completed", 1>>, <<"ba-1", "completed", 2>> >>
  /\ agent_call = AgentCall("process_task", "ba-1", "", "completed")

\* C29: a get_best_agent that returns None is not fatal: no execution is in
\* status failed because no agent of the required type was available for an
\* agent_task step.
C29_NoAgentNotFatal ==
  \A e \in DOMAIN executions :
    ~(executions[e].status = "failed" /\ executions[e].error = "no_agent")

\* the fixed order of the review stages, and the stage after a reviewed one
StageOrder == <<"REVIEW_USER_STORIES", "REVIEW_DESIGN_DOCUMENTS", "REVIEW_CODE",
                "REVIEW_SECURITY_RECOMMENDATIONS", "REVIEW_TEST_CASES",
                "REVIEW_QA_TESTING", "END_NODE">>
Successor(stage) == StageOrder[(CHOOSE i \in 1..6 : StageOrder[i] = stage) + 1]

\* C30: a graph_review_flow call for one of the six stages on a task with a
\* saved state returns, and the state it returns is the state saved: with
\* status approved its next_node is the successor of the reviewed stage in
\* the fixed order, with status feedback its next_node is the reviewed stage
\* and the feedback text is stored; this is so whatever the approve/reject
\* call and the agent task of the agentic system did.
C30_ReviewFlow ==
  LET c == review_call
      saved == saved_states[c.task_id]
  IN (/\ c.op = "graph_review_flow"
      /\ c.review_type \in Range(ReviewTypes)
      /\ c.err # "no_state")
     => /\ c.err = ""
        /\ saved = c.state
        /\ saved[agent_mapping(c.review_type).status_field] = c.status
        /\ c.status = "approved" => saved["next_node"] = Successor(c.review_type)
        /\ c.status = "feedback"
             => /\ saved["next_node"] = c.review_type
                /\ saved[agent_mapping(c.review_type).feedback_field] = c.feedback

\* the code review was approved, approve_stage succeeded and the task of
\* the next agent raised: the saved state points at the security review
C30_Witness ==
  /\ review_call.op = "graph_review_flow"
  /\ review_call.status = "approved"
  /\ review_call.review_type = "REVIEW_CODE"
  /\ review_call.stage = "ok"
  /\ review_call.task = "raises"
  /\ review_call.err = ""
  /\ saved_states["t1"]["next_node"] = "REVIEW_SECURITY_RECOMMENDATIONS"

\* C31: dequeue(type_filter) with a type returns only a pending task that
\* is assigned to an agent of that type, one that get_pending(type_filter)
\* lists, or no task; never a task of another type or of no agent.
C31_TypedDequeue ==
  [][\A t \in QueueTypes \ {None} :
       dequeue(t)
       => \A id \in 1..MaxEnqueue :
            Dequeued(id)
            => /\ tasks[id].assigned_agent # None
               /\ SplitType(tasks[id].assigned_agent) = t
               /\ id \in get_pending_tasks(t)]_vars

\* an agent the engine has just handed a task to
EnginePicks(a) ==
  \E e \in ExecIds :
    \/ run'[e].pc = "agent" /\ run'[e].agent = a /\ run[e].pc # "agent"
    \/ /\ run'[e].pc = "sub"
       /\ \E j \in 1..Len(run'[e].subst) :
            /\ run'[e].subst[j] = "working"
            /\ run'[e].subag[j] = a
            /\ ~(run[e].pc = "sub" /\ run[e].subst[j] = "working")

C33_OneTaskAtATime ==
  \A a \in AgentIds :
    /\ processing[a] <= 1
    /\ processing[a] = 1 => ~is_available(a) /\ \A t \in AgentTypes : get_best_agent(t) # a

\* C34: every execute_task call that ran process_task has exactly one
\* outcome: success (tasks_completed + 1, the task in the history, task and
\* agent completed, nothing raised) or failure (tasks_failed + 1, task failed,
\* agent in error, an error raised), never both counters incremented
C34_OneOutcome ==
  [][\A a \in AgentIds, o \in Outcomes, dt \in WfElapsed :
       ProcessTaskDone(a, o, dt)
       => LET m  == agent_metrics[a]
              m1 == agent_metrics'[a]
              success == /\ m1.tasks_completed = m.tasks_completed + 1
                         /\ m1.tasks_failed = m.tasks_failed
                         /\ task_history'[a] = task_history[a] + 1
                         /\ agent_state'[a] = "completed"
                         /\ agent_call'.task_status = "completed"
                         /\ agent_call'.err = ""
              failure == /\ m1.tasks_failed = m.tasks_failed + 1
                         /\ m1.tasks_completed = m.tasks_completed
                         /\ task_history'[a] = task_history[a]
                         /\ agent_state'[a] = "error"
                         /\ agent_call'.task_status = "failed"
                         /\ agent_call'.err # ""
          IN success \/ failure]_vars

\* C35: a top-level step that raised under a policy other than skip (fail or
\* the reserved retry) ends the execution as failed at that step, so that no
\* later step runs and the execution does not complete; after a step raised
\* under skip the execution goes on
C35_FailureStops ==
  [][\A e \in ExecIds :
       /\ e \in DOMAIN executions'
       /\ top_failure' # top_failure
       /\ top_failure'.eid = e
       /\ top_failure'.policy # "skip"
       => /\ executions'[e].status = "failed"
          /\ run'[e].pc = "idle"
          /\ executions'[e].current_step_index = top_failure'.index]_vars

\* C36: after reject_step the task handed to the agent of the step that is
\* executed again (the agent_task step before the rejected review) carries
\* the rejection feedback in its input data, whatever input_mapping the step
\* declares
C36_FeedbackReachesAgent ==
  [][\A e \in ExecIds, a \in AgentIds :
       /\ e \in DOMAIN executions
       /\ entry[e].op = "reject_step"
       /\ entry[e].from > 0
       /\ entry[e].ran = <<>>
       /\ run[e].pc = "loop"
       /\ run'[e].pc = "agent"
       /\ run'[e].agent = a
       => LET k == FeedbackKey(workflow[entry[e].from + 1].name)
          IN /\ executions[e].current_step_index = entry[e].from - 1
             /\ k \in DOMAIN executions[e].context
             /\ k \in DOMAIN current_task'[a].input_data
             /\ current_task'[a].input_data[k] = executions[e].context[k]]_vars

\* C37: whenever no engine coroutine is working on an execution, the
\* execution is pending approval if and only if its status is
\* waiting_approval
C37_PendingIffWaiting ==
  \A e \in DOMAIN executions :
    run[e].pc = "idle"
    => (e \in pending_approvals <=> executions[e].status = "waiting_approval")

\* an execution suspended again at its review after a rejection, and pending
C37_Witness ==
  \E e \in DOMAIN executions :
    /\ run[e].pc = "idle"
    /\ entry[e].op = "reject_step"
    /\ executions[e].status = "waiting_approval"
    /\ e \in pending_approvals

\* C38: the step index of an execution stays between 0 and the number of
\* steps of its workflow, and a completed execution stands at the number of
\* steps
C38_IndexInRange ==
  \A e \in DOMAIN executions :
    /\ executions[e].current_step_index \in 0..Len(workflow)
    /\ executions[e].status = "completed"
       => executions[e].current_step_index = Len(workflow)

\* an execution that completed after a rejection at its first step and a
\* later approval
C38_Witness ==
  \E e \in DOMAIN executions :
    /\ executions[e].status = "completed"
    /\ Len(workflow) > 1
    /\ entry[e].op = "approve_step"
    /\ ReviewStatusKey(workflow[1].name) \in DOMAIN executions[e].context

RECURSIVE Drain(_, _)
\* the tasks that dequeue() returns when it is called on the heap h, with the
\* pending bucket pend, until it returns None
Drain(h, pend) ==
  IF h = <<>> THEN {}
  ELSE LET p == heappop(h)
       IN IF p.item.task \in pend
            THEN {p.item.task} \cup Drain(p.heap, pend \ {p.item.task})
            ELSE Drain(p.heap, pend)

\* C39: no pending task is unreachable: every task in the pending bucket,
\* which get_pending_tasks lists, is among the tasks that unfiltered dequeue
\* calls return before the queue runs empty
C39_PendingReachable ==
  /\ get_pending_tasks(None) = pending_tasks
  /\ pending_tasks \subseteq Drain(queue, pending_tasks)


====
